---- MODULE Spec2Model ----
(***************************************************************************)
(* paper-agent: the organization resolver (src/src/normalizer.py over      *)
(* src/src/knowledge_base.py) and the evaluation engine                    *)
(* (src/src/evaluation.py).                                                *)
(*                                                                         *)
(* Text is a sequence of one-character strings, so that lower(), strip(),  *)
(* split(), the "in" substring test and the rapidfuzz scorers are computed *)
(* character by character as Python computes them.  Scores and confidences *)
(* are exact rationals [num, den].                                         *)
(***************************************************************************)
EXTENDS Integers, Sequences, FiniteSets, TLC

VARIABLES
    \* OrganizationNormalizer (normalizer.py:27-55)
    fuzzy_threshold,    \* self.fuzzy_threshold
    use_llm_fallback,   \* self.use_llm_fallback (self._llm is set iff TRUE)
    cache,              \* self._cache: cache_key -> NormalizationResult
    enable_ror,         \* DataSourceRouter.enable_ror (router.py:53)
    \* the last normalize() call
    lastInput,          \* raw_affiliation passed to the call, NoCall before
    lastResult,         \* the NormalizationResult it returned
    lastTrace,          \* the tiers the call invoked, in order, with outcome
    lastLlm,            \* what the model call did in this call
    \* EvaluationEngine.evaluate_extraction (evaluation.py:316-492)
    gold,               \* gold_dataset.papers: paper_id -> GoldPaper authors
    predictions,        \* the predictions argument
    evalOut,            \* the counters and metrics of the finished call
    \* EvaluationEngine.evaluate_full (evaluation.py:638-703)
    args,               \* the keyword arguments of the call
    report,             \* the EvaluationReport it returned
    \* GoldStandardDataset and its file (evaluation.py:154-225)
    file,               \* the JSON document at self.path, None without a file
    dataset,            \* the store last constructed: its papers dict
    saved,              \* the store as the last save() wrote it to the file
    lastCall,           \* the last store operation and what it raised
    \* RORLookup (data_sources/ror.py:17-296)
    registry,           \* the items the registry's search endpoint returns
    ror_cache,          \* self._cache: cache_key -> result, oldest first
    request_count,      \* self._request_count
    cache_size,         \* self._cache_size
    lastLookup,         \* the last call on the client and what it returned
    \* TaskManager and the /api/analyze, /cancel endpoints (api/task_manager.py)
    tasks,              \* self.tasks: task_id -> task.status, in creation order
    run,                \* where each task's background run_analysis stands
    active_task_id,     \* self._active_task_id, 0 for None
    api_key,            \* whether OPENAI_API_KEY is set
    lastResponse,       \* the last HTTP response of the two endpoints
    \* AgentState during one run of the graph (state.py:18-75, graph.py:19-91)
    state_papers,       \* state["papers"]
    current_index,      \* state["current_index"]
    processed_count,    \* state["processed_count"]
    error_count,        \* state["error_count"]
    should_stop,        \* state["should_stop"]
    retry_count,        \* state["retry_count"]
    max_retries,        \* state["max_retries"]
    max_papers,         \* state["max_papers"], which sets recursion_limit
    node,               \* the node to run next, END, or raised
    step_count,         \* node executions so far
    extract_runs,       \* executions of extract on the paper at current_index
    lastStep            \* the node that ran last and how it ended

normVars == <<fuzzy_threshold, use_llm_fallback, cache, enable_ror,
              lastInput, lastResult, lastTrace, lastLlm>>
evalVars == <<gold, predictions, evalOut>>
fullVars == <<args, report>>
storeVars == <<file, dataset, saved, lastCall>>
rorVars == <<registry, ror_cache, request_count, cache_size, lastLookup>>
taskVars == <<tasks, run, active_task_id, api_key, lastResponse>>
graphVars == <<state_papers, current_index, processed_count, error_count,
               should_stop, retry_count, max_retries, max_papers,
               node, step_count, extract_runs, lastStep>>
vars == <<normVars, evalVars, fullVars, storeVars, rorVars, taskVars,
          graphVars>>

-----------------------------------------------------------------------------
(* Python str operations on character sequences                            *)

EmptyStr == <<>>

UPPERCASE == <<"A","B","C","D","E","F","G","H","I","J","K","L","M",
               "N","O","P","Q","R","S","T","U","V","W","X","Y","Z">>
LOWERCASE == <<"a","b","c","d","e","f","g","h","i","j","k","l","m",
               "n","o","p","q","r","s","t","u","v","w","x","y","z">>
\* the characters the model's texts use, in code point order
CODEPOINT_ORDER == <<" ", ",", "-", ".">> \o UPPERCASE \o LOWERCASE

WHITESPACE == {" "}

ord(c) == CHOOSE i \in 1..Len(CODEPOINT_ORDER) : CODEPOINT_ORDER[i] = c

lower_char(c) ==
    IF \E i \in 1..Len(UPPERCASE) : UPPERCASE[i] = c
    THEN LOWERCASE[CHOOSE i \in 1..Len(UPPERCASE) : UPPERCASE[i] = c]
    ELSE c

\* str.lower()
lower(s) == [i \in 1..Len(s) |-> lower_char(s[i])]

RECURSIVE lstrip(_)
lstrip(s) ==
    IF s # <<>> /\ Head(s) \in WHITESPACE THEN lstrip(Tail(s)) ELSE s

RECURSIVE rstrip(_)
rstrip(s) ==
    IF s # <<>> /\ s[Len(s)] \in WHITESPACE
    THEN rstrip(SubSeq(s, 1, Len(s) - 1))
    ELSE s

\* str.strip()
strip(s) == rstrip(lstrip(s))

\* Python's "sub in s" on strings (the empty string is in every string)
contains(s, sub) ==
    \E i \in 0..(Len(s) - Len(sub)) : SubSeq(s, i + 1, i + Len(sub)) = sub

\* str.split(): the maximal runs of non-whitespace, in order
RECURSIVE split_from(_, _, _)
split_from(s, cur, acc) ==
    IF s = <<>>
    THEN IF cur = <<>> THEN acc ELSE Append(acc, cur)
    ELSE IF Head(s) \in WHITESPACE
         THEN split_from(Tail(s), <<>>,
                         IF cur = <<>> THEN acc ELSE Append(acc, cur))
         ELSE split_from(Tail(s), Append(cur, Head(s)), acc)

split(s) == split_from(s, <<>>, <<>>)

\* str < str: lexicographic by code point, a proper prefix is smaller
RECURSIVE str_less(_, _)
str_less(a, b) ==
    IF b = <<>> THEN FALSE
    ELSE IF a = <<>> THEN TRUE
    ELSE IF Head(a) = Head(b) THEN str_less(Tail(a), Tail(b))
    ELSE ord(Head(a)) < ord(Head(b))

\* sorted(list of str): insertion into a sorted list, stable
RECURSIVE insert_sorted(_, _)
insert_sorted(t, xs) ==
    IF xs = <<>> THEN <<t>>
    ELSE IF str_less(t, Head(xs)) THEN <<t>> \o xs
    ELSE <<Head(xs)>> \o insert_sorted(t, Tail(xs))

RECURSIVE sorted(_)
sorted(xs) ==
    IF xs = <<>> THEN <<>>
    ELSE insert_sorted(xs[Len(xs)], sorted(SubSeq(xs, 1, Len(xs) - 1)))

\* " ".join(list of str)
RECURSIVE join(_)
join(xs) ==
    IF xs = <<>> THEN <<>>
    ELSE IF Len(xs) = 1 THEN xs[1]
    ELSE xs[1] \o <<" ">> \o join(Tail(xs))

-----------------------------------------------------------------------------
(* rapidfuzz scorers, as called by the code                                *)

Max(a, b) == IF a >= b THEN a ELSE b

\* one row of the longest-common-subsequence table: row[j+1] is the LCS
\* length of the first i characters of a and the first j characters of b
RECURSIVE lcs_row(_, _, _, _)
lcs_row(prev, c, b, cur) ==
    LET j == Len(cur) IN
    IF j > Len(b) THEN cur
    ELSE lcs_row(prev, c, b,
                 Append(cur, IF c = b[j] THEN prev[j] + 1
                             ELSE Max(prev[j + 1], cur[j])))

\* the rows in turn; each row is complete before the next one is started
RECURSIVE lcs_rows(_, _, _, _)
lcs_rows(a, b, i, prev) ==
    IF i > Len(a) THEN prev[Len(b) + 1]
    ELSE LET row == lcs_row(prev, a[i], b, <<0>>)
         IN  IF Len(row) = 0 THEN 0 ELSE lcs_rows(a, b, i + 1, row)

lcs_len(a, b) == lcs_rows(a, b, 1, [j \in 1..(Len(b) + 1) |-> 0])

\* fuzz.ratio: 100 * (1 - indel_distance / (len1 + len2)), where
\* indel_distance = len1 + len2 - 2 * LCS; 100 for two empty strings
ratio(a, b) ==
    IF Len(a) + Len(b) = 0
    THEN [num |-> 100, den |-> 1]
    ELSE [num |-> 200 * lcs_len(a, b), den |-> Len(a) + Len(b)]

\* fuzz.token_sort_ratio (no processor): ratio of the sorted, re-joined tokens
token_sort_ratio(s1, s2) ==
    ratio(join(sorted(split(s1))), join(sorted(split(s2))))

\* exact comparisons on rationals with positive denominators
RatGeq(r, n) == r.num >= n * r.den
RatLess(p, q) == p.num * q.den < q.num * p.den
RatLeq(p, q) == p.num * q.den <= q.num * p.den
RatEq(p, q) == p.num * q.den = q.num * p.den

-----------------------------------------------------------------------------
(* knowledge_base.py: the registry table, the variant index, the lookup    *)

\* Python None where a record is expected (a record, so that TLC can compare)
None == [none |-> TRUE]

\* ORGANIZATION_KB, in insertion order: the records "google", "deepmind",
\* "mit" and "toronto" of the table, verbatim
KB_google ==
    [key |-> <<"g","o","o","g","l","e">>,
     canonical |-> <<"G","o","o","g","l","e">>,
     variants |-> << <<"G","o","o","g","l","e"," ","R","e","s","e","a","r","c","h">>,
                     <<"G","o","o","g","l","e"," ","B","r","a","i","n">>,
                     <<"G","o","o","g","l","e"," ","A","I">>,
                     <<"G","o","o","g","l","e"," ","I","n","c",".">>,
                     <<"G","o","o","g","l","e"," ","L","L","C">>,
                     <<"G","o","o","g","l","e"," ","D","e","e","p","M","i","n","d">> >>,
     country |-> "United States", country_code |-> "US", type |-> "company",
     aliases |-> << <<"G","O","O","G">> >>]

KB_deepmind ==
    [key |-> <<"d","e","e","p","m","i","n","d">>,
     canonical |-> <<"D","e","e","p","M","i","n","d">>,
     variants |-> << <<"D","e","e","p","M","i","n","d"," ","T","e","c","h","n","o","l","o","g","i","e","s">>,
                     <<"D","e","e","p","M","i","n","d"," ","T","e","c","h","n","o","l","o","g","i","e","s"," ","L","i","m","i","t","e","d">>,
                     <<"G","o","o","g","l","e"," ","D","e","e","p","M","i","n","d">> >>,
     country |-> "United Kingdom", country_code |-> "GB", type |-> "company",
     aliases |-> << >>]

KB_mit ==
    [key |-> <<"m","i","t">>,
     canonical |-> <<"M","a","s","s","a","c","h","u","s","e","t","t","s"," ","I","n","s","t","i","t","u","t","e"," ","o","f"," ","T","e","c","h","n","o","l","o","g","y">>,
     variants |-> << <<"M","I","T">>,
                     <<"M",".","I",".","T",".">>,
                     <<"M","I","T"," ","C","S","A","I","L">> >>,
     country |-> "United States", country_code |-> "US", type |-> "university",
     aliases |-> << <<"M","I","T">> >>]

KB_toronto ==
    [key |-> <<"t","o","r","o","n","t","o">>,
     canonical |-> <<"U","n","i","v","e","r","s","i","t","y"," ","o","f"," ","T","o","r","o","n","t","o">>,
     variants |-> << <<"T","o","r","o","n","t","o">>,
                     <<"U"," ","o","f"," ","T">>,
                     <<"U","o","f","T">> >>,
     country |-> "Canada", country_code |-> "CA", type |-> "university",
     aliases |-> << >>]

ORGANIZATION_KB == << KB_google, KB_deepmind, KB_mit, KB_toronto >>

\* ORGANIZATION_KB[key]
kb_record(key) ==
    ORGANIZATION_KB[CHOOSE i \in 1..Len(ORGANIZATION_KB) :
                        ORGANIZATION_KB[i].key = key]

\* result[k] = v on a dict kept as its items in insertion order: an existing
\* key keeps its place and takes the new value
dict_set(d, k, v) ==
    IF \E i \in 1..Len(d) : d[i].variant = k
    THEN [i \in 1..Len(d) |->
            IF d[i].variant = k THEN [variant |-> k, key |-> v] ELSE d[i]]
    ELSE Append(d, [variant |-> k, key |-> v])

RECURSIVE dict_set_all(_, _, _)
dict_set_all(d, ks, v) ==
    IF ks = <<>> THEN d
    ELSE dict_set_all(dict_set(d, lower(Head(ks)), v), Tail(ks), v)

\* the body of the loop of get_all_variants for one record
add_record(result, data) ==
    dict_set_all(
        dict_set_all(
            dict_set(dict_set(result, data.key, data.key),
                     lower(data.canonical), data.key),
            data.variants, data.key),
        data.aliases, data.key)

RECURSIVE get_all_variants_from(_, _)
get_all_variants_from(result, i) ==
    IF i > Len(ORGANIZATION_KB) THEN result
    ELSE get_all_variants_from(add_record(result, ORGANIZATION_KB[i]), i + 1)

get_all_variants == get_all_variants_from(<<>>, 1)

\* the pre-computed lookup table, as its items in insertion order
VARIANT_LOOKUP == get_all_variants

\* text_lower in VARIANT_LOOKUP
in_variant_lookup(text_lower) ==
    \E i \in 1..Len(VARIANT_LOOKUP) : VARIANT_LOOKUP[i].variant = text_lower

\* VARIANT_LOOKUP[variant]
variant_key(variant) ==
    VARIANT_LOOKUP[CHOOSE i \in 1..Len(VARIANT_LOOKUP) :
                       VARIANT_LOOKUP[i].variant = variant].key

\* the condition of the substring scan for item i
substring_hit(text_lower, i) ==
    \/ contains(text_lower, VARIANT_LOOKUP[i].variant)
    \/ contains(VARIANT_LOOKUP[i].variant, text_lower)

lookup_organization(text) ==
    LET text_lower == strip(lower(text)) IN
    IF in_variant_lookup(text_lower)
    THEN kb_record(variant_key(text_lower))
    ELSE IF \E i \in 1..Len(VARIANT_LOOKUP) : substring_hit(text_lower, i)
    THEN LET first == CHOOSE i \in 1..Len(VARIANT_LOOKUP) :
                          /\ substring_hit(text_lower, i)
                          /\ \A j \in 1..(i - 1) : ~substring_hit(text_lower, j)
         IN  kb_record(VARIANT_LOOKUP[first].key)
    ELSE None

-----------------------------------------------------------------------------
(* normalizer.py: OrganizationNormalizer                                   *)

\* the texts passed to normalize(); the first NumInputs of them are used
InputPool ==
    << <<"G","o","o","g","l","e"," ","D","e","e","p","M","i","n","d">>,
       <<"U","n","i","v","e","s","i","t","y"," ","o","f"," ","T","o","r","o","n","t","o">>,
       <<"U","n","i","v","e","s","i","t","y"," ","o","f"," ","T","o","r","o","n","o">>,
       <<"A","c","m","e"," ","C","o","r","p">>,
       <<"A","C","M","E"," ","C","O","R","P"," ">>,
       <<>>,
       <<" "," ">>,
       <<" ","g","o","o","g","l","e"," ","R","e","s","e","a","r","c","h">>,
       <<"M","I","T"," ","C","S","A","I","L">> >>

NumInputs == 6

Inputs == {InputPool[i] : i \in 1..NumInputs}

\* markers that are no text: no call yet, a key absent from the answer, null
NoCall == <<"NoCall">>
MissingText == <<"Missing">>
NullText == <<"Null">>
Missing == "Missing"

\* OrganizationType (models.py:13-21)
OrganizationTypes ==
    {"university", "company", "research_institute", "government",
     "hospital", "nonprofit", "unknown"}

\* what chain.invoke does in _llm_normalize: it raises (the model call or
\* the JSON parser), or returns the parsed answer; a key may be absent from
\* the answer, and "canonical" may be JSON null
LlmOutcomes ==
    { [kind |-> "raise"],
      [kind |-> "answer", canonical |-> <<"A","c","m","e"," ","C","o","r","p","o","r","a","t","i","o","n">>,
       country |-> "United States", country_code |-> "US", type |-> "company"],
      [kind |-> "answer", canonical |-> <<"A","c","m","e"," ","C","o","r","p","o","r","a","t","i","o","n">>,
       country |-> "United States", country_code |-> "US", type |-> "startup"],
      [kind |-> "answer", canonical |-> MissingText,
       country |-> Missing, country_code |-> Missing, type |-> Missing],
      [kind |-> "answer", canonical |-> NullText,
       country |-> "United States", country_code |-> "US", type |-> "company"] }

NotCalled == [kind |-> "not_called"]

DefaultFuzzyThreshold == 80
\* the thresholds a resolver is constructed with: the default and a stricter one
FuzzyThresholds == {DefaultFuzzyThreshold, 95}
KbConfidence == [num |-> 95, den |-> 100]
LlmConfidence == [num |-> 7, den |-> 10]
NoneConfidence == [num |-> 3, den |-> 10]

\* self._all_variants = list(VARIANT_LOOKUP.keys())
_all_variants == [i \in 1..Len(VARIANT_LOOKUP) |-> VARIANT_LOOKUP[i].variant]

\* process.extractOne(query, choices, scorer=fuzz.token_sort_ratio): the best
\* scoring choice, the first one among equals; None for no choices
RECURSIVE extractOne_from(_, _, _, _)
extractOne_from(query, choices, i, best) ==
    IF i > Len(choices) THEN best
    ELSE LET score == token_sort_ratio(query, choices[i])
             better == IF best = None THEN TRUE ELSE RatLess(best.score, score)
         IN  extractOne_from(query, choices, i + 1,
                             IF better
                             THEN [choice |-> choices[i], score |-> score]
                             ELSE best)

extractOne(query, choices) == extractOne_from(query, choices, 1, None)

\* the two pure tiers, tabulated once for the texts of the pool
lookup_table == [raw \in Inputs |-> lookup_organization(raw)]
extractOne_table ==
    [raw \in Inputs |-> extractOne(strip(lower(raw)), _all_variants)]

\* variant: the score taken as the confidence, without the 0.9 factor
fuzzy_confidence_unscaled(score) == [num |-> score.num, den |-> score.den * 100]

\* confidence = match[1] / 100.0 * 0.9
fuzzy_confidence(score) == [num |-> score.num * 9, den |-> score.den * 1000]

\* variant: a score equal to the threshold is rejected
_fuzzy_match_strict(raw) ==
    LET match == extractOne_table[raw] IN
    IF match # None
       /\ RatLess([num |-> fuzzy_threshold, den |-> 1], match.score)
    THEN LET kb_data == kb_record(variant_key(match.choice)) IN
         [original |-> raw,
          normalized |-> kb_data.canonical,
          country |-> kb_data.country,
          country_code |-> kb_data.country_code,
          org_type |-> kb_data.type,
          confidence |-> fuzzy_confidence(match.score),
          source |-> "fuzzy"]
    ELSE None

_fuzzy_match(raw) ==
    LET match == extractOne_table[raw] IN
    IF match # None /\ RatGeq(match.score, fuzzy_threshold)
    THEN LET kb_data == kb_record(variant_key(match.choice)) IN
         [original |-> raw,
          normalized |-> kb_data.canonical,
          country |-> kb_data.country,
          country_code |-> kb_data.country_code,
          org_type |-> kb_data.type,
          confidence |-> fuzzy_confidence(match.score),
          source |-> "fuzzy"]
    ELSE None

\* result.get(key, default)
dict_get(value, default) == IF value = Missing THEN default ELSE value
dict_get_text(value, default) ==
    IF value = MissingText THEN default ELSE value

\* variant: the type string of the answer is kept without validation
_llm_normalize_unvalidated(raw, llm) ==
    IF llm.kind = "raise" THEN None
    ELSE IF llm.canonical = NullText THEN None
    ELSE [original |-> raw,
          normalized |-> dict_get_text(llm.canonical, raw),
          country |-> dict_get(llm.country, "Unknown"),
          country_code |-> dict_get(llm.country_code, "XX"),
          org_type |-> dict_get(llm.type, "unknown"),
          confidence |-> LlmConfidence,
          source |-> "llm"]

\* _llm_normalize(raw) when chain.invoke does llm; every exception inside
\* the try block, the NormalizationResult validation error for a null
\* "canonical" included, is caught and gives None
_llm_normalize(raw, llm) ==
    IF llm.kind = "raise" THEN None
    ELSE IF llm.canonical = NullText THEN None
    ELSE LET org_type_str == dict_get(llm.type, "unknown") IN
         [original |-> raw,
          normalized |-> dict_get_text(llm.canonical, raw),
          country |-> dict_get(llm.country, "Unknown"),
          country_code |-> dict_get(llm.country_code, "XX"),
          org_type |-> IF org_type_str \in OrganizationTypes
                       THEN org_type_str ELSE "unknown",
          confidence |-> LlmConfidence,
          source |-> "llm"]

unresolved(raw) ==
    [original |-> raw, normalized |-> raw, country |-> "Unknown",
     country_code |-> "XX", org_type |-> "unknown",
     confidence |-> NoneConfidence, source |-> "none"]

Step(tier, hit) == [tier |-> tier, hit |-> hit]

kb_result_of(raw, kb_result) ==
    [original |-> raw,
     normalized |-> kb_result.canonical,
     country |-> kb_result.country,
     country_code |-> kb_result.country_code,
     org_type |-> kb_result.type,
     confidence |-> KbConfidence,
     source |-> "kb"]

\* variant: every tier is run before the first success is picked
_normalize_internal_eager(raw, llm) ==
    LET kb_result == lookup_table[raw]
        fuzzy_result == _fuzzy_match(raw)
        llm_result == IF use_llm_fallback THEN _llm_normalize(raw, llm) ELSE None
        steps == << Step("kb", kb_result # None),
                    Step("fuzzy", fuzzy_result # None) >>
                 \o (IF use_llm_fallback
                     THEN << Step("llm", llm_result # None) >> ELSE << >>)
    IN  [result |-> IF kb_result # None THEN kb_result_of(raw, kb_result)
                    ELSE IF fuzzy_result # None THEN fuzzy_result
                    ELSE IF llm_result # None THEN llm_result
                    ELSE unresolved(raw),
         trace |-> steps,
         llm |-> IF use_llm_fallback THEN llm ELSE NotCalled]

\* variant: a registry tier between the fuzzy tier and the generative one
_normalize_internal_registry(raw, llm) ==
    LET kb_result == lookup_table[raw]
        fuzzy_result == _fuzzy_match(raw)
        llm_result == _llm_normalize(raw, llm)
        head == << Step("kb", FALSE), Step("fuzzy", FALSE) >>
                \o (IF enable_ror THEN << Step("registry", FALSE) >> ELSE << >>)
    IN  IF kb_result # None
        THEN [result |-> kb_result_of(raw, kb_result),
              trace |-> << Step("kb", TRUE) >>, llm |-> NotCalled]
        ELSE IF fuzzy_result # None
        THEN [result |-> fuzzy_result,
              trace |-> << Step("kb", FALSE), Step("fuzzy", TRUE) >>,
              llm |-> NotCalled]
        ELSE IF use_llm_fallback
        THEN [result |-> IF llm_result # None THEN llm_result
                         ELSE unresolved(raw),
              trace |-> Append(head, Step("llm", llm_result # None)),
              llm |-> llm]
        ELSE [result |-> unresolved(raw), trace |-> head, llm |-> NotCalled]

\* _normalize_internal(raw): the result and the tiers invoked, in order;
\* llm is what the model call does if the cascade reaches it
_normalize_internal(raw, llm) ==
    LET kb_result == lookup_table[raw] IN
    IF kb_result # None
    THEN [result |-> kb_result_of(raw, kb_result),
          trace |-> << Step("kb", TRUE) >>,
          llm |-> NotCalled]
    ELSE LET fuzzy_result == _fuzzy_match(raw) IN
    IF fuzzy_result # None
    THEN [result |-> fuzzy_result,
          trace |-> << Step("kb", FALSE), Step("fuzzy", TRUE) >>,
          llm |-> NotCalled]
    ELSE IF use_llm_fallback
    THEN LET llm_result == _llm_normalize(raw, llm) IN
         IF llm_result # None
         THEN [result |-> llm_result,
               trace |-> << Step("kb", FALSE), Step("fuzzy", FALSE),
                            Step("llm", TRUE) >>,
               llm |-> llm]
         ELSE [result |-> unresolved(raw),
               trace |-> << Step("kb", FALSE), Step("fuzzy", FALSE),
                            Step("llm", FALSE) >>,
               llm |-> llm]
    ELSE [result |-> unresolved(raw),
          trace |-> << Step("kb", FALSE), Step("fuzzy", FALSE) >>,
          llm |-> NotCalled]

\* cache_key = raw_affiliation.lower().strip()
cache_key_of(raw_affiliation) == strip(lower(raw_affiliation))

\* variant: the cache is written but never consulted
normalize_uncached(raw_affiliation) ==
    LET cache_key == cache_key_of(raw_affiliation) IN
    /\ lastInput' = raw_affiliation
    /\ \E llm \in LlmOutcomes :
         LET out == _normalize_internal(raw_affiliation, llm) IN
         /\ cache' = (cache_key :> out.result) @@ cache
         /\ lastResult' = out.result
         /\ lastTrace' = out.trace
         /\ lastLlm' = out.llm
    /\ UNCHANGED <<fuzzy_threshold, use_llm_fallback, enable_ror>>
    /\ UNCHANGED <<evalVars, fullVars, storeVars, rorVars, taskVars,
                 graphVars>>

\* normalize(raw_affiliation)
normalize(raw_affiliation) ==
    LET cache_key == cache_key_of(raw_affiliation) IN
    /\ lastInput' = raw_affiliation
    /\ IF cache_key \in DOMAIN cache
       THEN /\ lastResult' = cache[cache_key]
            /\ lastTrace' = <<>>
            /\ lastLlm' = NotCalled
            /\ cache' = cache
       ELSE \E llm \in LlmOutcomes :
            LET out == _normalize_internal(raw_affiliation, llm) IN
            /\ cache' = (cache_key :> out.result) @@ cache
            /\ lastResult' = out.result
            /\ lastTrace' = out.trace
            /\ lastLlm' = out.llm
    /\ UNCHANGED <<fuzzy_threshold, use_llm_fallback, enable_ror>>
    /\ UNCHANGED <<evalVars, fullVars, storeVars, rorVars, taskVars,
                 graphVars>>

NormalizeCall == \E raw \in Inputs : normalize(raw)

EvalIdle ==
    /\ gold = <<>>
    /\ predictions = <<>>
    /\ evalOut = None

FullIdle ==
    /\ args = None
    /\ report = None

NoCallYet == [op |-> "none", raised |-> "none"]
StoreIdle ==
    /\ file = None
    /\ dataset = None
    /\ saved = None
    /\ lastCall = NoCallYet

TaskIdle ==
    /\ tasks = <<>>
    /\ run = <<>>
    /\ active_task_id = 0
    /\ api_key = FALSE
    /\ lastResponse = None

GraphIdle ==
    /\ state_papers = <<>>
    /\ current_index = 0
    /\ processed_count = 0
    /\ error_count = 0
    /\ should_stop = FALSE
    /\ retry_count = 0
    /\ max_retries = 0
    /\ max_papers = 0
    /\ node = "idle"
    /\ step_count = 0
    /\ extract_runs = 0
    /\ lastStep = None

RorIdle ==
    /\ registry = <<>>
    /\ ror_cache = <<>>
    /\ request_count = 0
    /\ cache_size = 0
    /\ lastLookup = None

InitNorm ==
    /\ fuzzy_threshold \in FuzzyThresholds
    /\ use_llm_fallback \in BOOLEAN
    /\ enable_ror \in BOOLEAN
    /\ cache = <<>>
    /\ lastInput = NoCall
    /\ lastResult = None
    /\ lastTrace = <<>>
    /\ lastLlm = NotCalled
    /\ EvalIdle
    /\ FullIdle
    /\ StoreIdle
    /\ RorIdle
    /\ TaskIdle
    /\ GraphIdle

NextNorm == NormalizeCall

SpecNorm == InitNorm /\ [][NextNorm]_vars

-----------------------------------------------------------------------------
(* evaluation.py: the gold store and EvaluationEngine.evaluate_extraction  *)

\* EvaluationEngine.__init__: fuzzy_threshold: int = 85
EvalFuzzyThreshold == 85

\* the truth value of an Optional[str]: None and "" are false
truthy(s) == s # NullText /\ s # EmptyStr
\* s or ""
or_empty(s) == IF s = NullText THEN EmptyStr ELSE s

\* GoldAuthor records of the gold store
GoldAuthorPool ==
    << [name |-> <<"J","o","h","n"," ","S","m","i","t","h">>, raw_affiliation |-> <<"M","I","T">>,
        normalized_affiliation |-> <<"M","I","T">>, country |-> <<"U","S","A">>,
        country_code |-> <<"U","S">>, org_type |-> "university"],
       [name |-> <<"J","a","n","e"," ","D","o","e">>, raw_affiliation |-> <<>>,
        normalized_affiliation |-> <<>>, country |-> <<>>,
        country_code |-> <<>>, org_type |-> ""],
       [name |-> <<"J","o","h","n"," ","S","m","y","t","h">>, raw_affiliation |-> <<"G","o","o","g","l","e">>,
        normalized_affiliation |-> <<"G","o","o","g","l","e">>, country |-> <<"U","S","A">>,
        country_code |-> <<"U","S">>, org_type |-> "company"] >>

\* AuthorAffiliation records of the predictions (models.py:39-87); email and
\* confidence are not read by the evaluation
PredAuthorPool ==
    << [name |-> <<"J","o","h","n"," ","S","m","i","t","h">>, raw_affiliation |-> <<"M","I","T">>,
        normalized_affiliation |-> <<"M","I","T">>, country |-> <<"U","S","A">>,
        country_code |-> <<"U","S">>, org_type |-> "university"],
       [name |-> <<"J","o","h","n"," ","S","m","y","t","h">>, raw_affiliation |-> <<"G","o","o","g","l","e">>,
        normalized_affiliation |-> <<"G","o","o","g","l","e">>, country |-> <<"U","S","A">>,
        country_code |-> <<"U","S">>, org_type |-> "company"],
       [name |-> <<"J","o","h","n"," ","S","m","i","t","h">>, raw_affiliation |-> <<>>,
        normalized_affiliation |-> <<"M","I","T">>, country |-> NullText,
        country_code |-> <<"U","S">>, org_type |-> "unknown"],
       [name |-> <<"J","a","n","e"," ","D","o","e">>, raw_affiliation |-> <<"M","I","T">>,
        normalized_affiliation |-> NullText, country |-> NullText,
        country_code |-> NullText, org_type |-> "unknown"],
       [name |-> <<"J","a","n","e"," ","D","o","e">>, raw_affiliation |-> <<>>,
        normalized_affiliation |-> <<>>, country |-> <<>>,
        country_code |-> <<>>, org_type |-> "unknown"] >>

GoldAuthors == {GoldAuthorPool[i] : i \in DOMAIN GoldAuthorPool}
PredAuthors == {PredAuthorPool[i] : i \in DOMAIN PredAuthorPool}

\* the longest author list of a paper, the longest predictions list
MaxAuthors == 2
MaxPapers == 2

\* the paper ids of the gold store, and those a prediction can carry
GoldPaperIds == {"2401.00001"}
PaperIds == GoldPaperIds \cup {"2401.00002"}

SeqsUpTo(S, n) == UNION {[1..k -> S] : k \in 0..n}

\* GoldPaper (the fields evaluate_extraction reads) and PaperMetadata
GoldPapers ==
    {[paper_id |-> id, authors |-> as] :
        id \in GoldPaperIds, as \in SeqsUpTo(GoldAuthors, MaxAuthors)}
PredPapers ==
    {[arxiv_id |-> id, authors |-> as] :
        id \in PaperIds, as \in SeqsUpTo(PredAuthors, MaxAuthors)}
PredictionLists == SeqsUpTo(PredPapers, MaxPapers)

\* GoldStandardDataset.papers after construction: empty, or what load() read
GoldStores == {<<>>} \cup {(p.paper_id :> p) : p \in GoldPapers}

\* GoldStandardDataset.get_paper
get_paper(paper_id) ==
    IF paper_id \in DOMAIN gold THEN gold[paper_id] ELSE None

\* the texts the engine compares, and their scores tabulated once
EvalTexts ==
    UNION {{a.name, lower(a.name), a.raw_affiliation, a.normalized_affiliation}
            : a \in GoldAuthors \cup PredAuthors} \ {NullText}
token_sort_ratio_table ==
    [str1 \in EvalTexts |-> [str2 \in EvalTexts |->
        token_sort_ratio(strip(lower(str1)), strip(lower(str2)))]]

\* EvaluationEngine._fuzzy_match
EvaluationEngine_fuzzy_match(str1, str2) ==
    IF ~truthy(str1) \/ ~truthy(str2) THEN FALSE
    ELSE RatGeq(token_sort_ratio_table[str1][str2], EvalFuzzyThreshold)

\* EvaluationEngine._exact_match_normalized
_exact_match_normalized(str1, str2) ==
    IF ~truthy(str1) \/ ~truthy(str2) THEN FALSE
    ELSE strip(lower(str1)) = strip(lower(str2))

\* the orders in which a set can be iterated
scans(S) ==
    {f \in [1..Cardinality(S) -> S] :
        \A i, j \in 1..Cardinality(S) : f[i] = f[j] => i = j}

\* variant: the scan does not skip the gold names that are already matched
RECURSIVE first_gold_match_any(_, _, _, _)
first_gold_match_any(pred_name, gold_scan, j, matched_gold) ==
    IF j > Len(gold_scan) THEN NullText
    ELSE IF EvaluationEngine_fuzzy_match(pred_name, gold_scan[j])
    THEN gold_scan[j]
    ELSE first_gold_match_any(pred_name, gold_scan, j + 1, matched_gold)

\* the inner loop of the author matching: the first name of the scan of
\* gold_authors that is not in matched_gold and is fuzzy-equal to pred_name
RECURSIVE first_gold_match(_, _, _, _)
first_gold_match(pred_name, gold_scan, j, matched_gold) ==
    IF j > Len(gold_scan) THEN NullText
    ELSE IF gold_scan[j] \in matched_gold
    THEN first_gold_match(pred_name, gold_scan, j + 1, matched_gold)
    ELSE IF EvaluationEngine_fuzzy_match(pred_name, gold_scan[j])
    THEN gold_scan[j]
    ELSE first_gold_match(pred_name, gold_scan, j + 1, matched_gold)

\* the outer loop: for pred_name in pred_authors
RECURSIVE match_authors(_, _, _, _)
match_authors(pred_scan, gold_scan, i, m) ==
    IF i > Len(pred_scan) THEN m
    ELSE LET gold_name == first_gold_match(pred_scan[i], gold_scan, 1,
                                           m.matched_gold)
         IN  match_authors(pred_scan, gold_scan, i + 1,
                IF gold_name = NullText THEN m
                ELSE [author_tp |-> m.author_tp + 1,
                      matched_gold |-> m.matched_gold \cup {gold_name},
                      matched_pred |-> m.matched_pred \cup {pred_scan[i]},
                      pairs |-> m.pairs \cup {<<pred_scan[i], gold_name>>}])

NoMatches ==
    [author_tp |-> 0, matched_gold |-> {}, matched_pred |-> {}, pairs |-> {}]

\* d[k] = v on a dict kept as its items in insertion order
dict_put(d, k, v) ==
    IF \E i \in 1..Len(d) : d[i].k = k
    THEN [i \in 1..Len(d) |-> IF d[i].k = k THEN [k |-> k, v |-> v] ELSE d[i]]
    ELSE Append(d, [k |-> k, v |-> v])

\* gold_by_name = {a.name.lower(): a for a in gold_paper.authors}
RECURSIVE gold_by_name_from(_, _, _)
gold_by_name_from(authors, i, d) ==
    IF i > Len(authors) THEN d
    ELSE gold_by_name_from(authors, i + 1,
                           dict_put(d, lower(authors[i].name), authors[i]))

gold_by_name_of(authors) == gold_by_name_from(authors, 1, <<>>)

\* the lookup of the scoring loop: the first item of gold_by_name whose key
\* is fuzzy-equal to the name of pred_author, None if there is none
RECURSIVE find_gold_author(_, _, _)
find_gold_author(pred_author, gold_by_name, j) ==
    IF j > Len(gold_by_name) THEN None
    ELSE IF EvaluationEngine_fuzzy_match(pred_author.name, gold_by_name[j].k)
    THEN gold_by_name[j].v
    ELSE find_gold_author(pred_author, gold_by_name, j + 1)

Bit(b) == IF b THEN 1 ELSE 0

\* variant: an affiliation predicted where gold has none is not counted
affiliation_outcome_lenient(pred_author, gold_author) ==
    LET pred_has_aff == truthy(pred_author.raw_affiliation)
        gold_has_aff == truthy(gold_author.raw_affiliation)
    IN  IF pred_has_aff /\ gold_has_aff
        THEN (IF EvaluationEngine_fuzzy_match(pred_author.raw_affiliation,
                                              gold_author.raw_affiliation)
              THEN "tp" ELSE "fp")
        ELSE IF ~pred_has_aff /\ gold_has_aff THEN "fn"
        ELSE "none"

\* "Аффилиация извлечена?": which affiliation counter the pair increments
affiliation_outcome(pred_author, gold_author) ==
    LET pred_has_aff == truthy(pred_author.raw_affiliation)
        gold_has_aff == truthy(gold_author.raw_affiliation)
    IN  IF pred_has_aff /\ gold_has_aff
        THEN (IF EvaluationEngine_fuzzy_match(pred_author.raw_affiliation,
                                              gold_author.raw_affiliation)
              THEN "tp" ELSE "fp")
        ELSE IF pred_has_aff /\ ~gold_has_aff THEN "fp"
        ELSE IF ~pred_has_aff /\ gold_has_aff THEN "fn"
        ELSE "none"

\* the body of the scoring loop for one pred_author that found a gold_author
score_author(c, k, i, pred_author, gold_author) ==
    LET aff == affiliation_outcome(pred_author, gold_author)
        org_ok ==
            /\ truthy(pred_author.normalized_affiliation)
            /\ truthy(gold_author.normalized_affiliation)
            /\ EvaluationEngine_fuzzy_match(pred_author.normalized_affiliation,
                                            gold_author.normalized_affiliation)
        country_ok ==
            /\ truthy(pred_author.country)
            /\ truthy(gold_author.country)
            /\ \/ _exact_match_normalized(pred_author.country,
                                          gold_author.country)
               \/ _exact_match_normalized(or_empty(pred_author.country_code),
                                          gold_author.country_code)
        \* an OrganizationType member is true, its value is never empty
        pred_type == pred_author.org_type
        type_ok ==
            /\ pred_type # ""
            /\ gold_author.org_type # ""
            /\ pred_type = gold_author.org_type
        org_match ==
            EvaluationEngine_fuzzy_match(
                or_empty(pred_author.normalized_affiliation),
                gold_author.normalized_affiliation)
        country_match ==
            \/ _exact_match_normalized(or_empty(pred_author.country),
                                       gold_author.country)
            \/ _exact_match_normalized(or_empty(pred_author.country_code),
                                       gold_author.country_code)
    IN  [c EXCEPT
            !.total_matched = @ + 1,
            !.aff_tp = @ + Bit(aff = "tp"),
            !.aff_fp = @ + Bit(aff = "fp"),
            !.aff_fn = @ + Bit(aff = "fn"),
            !.org_correct = @ + Bit(org_ok),
            !.country_correct = @ + Bit(country_ok),
            !.org_type_correct = @ + Bit(type_ok),
            !.hierarchical_correct = @ + Bit(org_match /\ country_match),
            !.scored_pairs =
                Append(@, [paper |-> k, pred_index |-> i,
                           pred_name |-> pred_author.name,
                           gold_name |-> gold_author.name,
                           aff |-> aff, org |-> org_ok,
                           country |-> country_ok, type |-> type_ok,
                           hierarchical |-> org_match /\ country_match])]

\* for pred_author in pred_paper.authors: the scoring loop
RECURSIVE score_authors(_, _, _, _, _)
score_authors(c, k, authors, i, gold_by_name) ==
    IF i > Len(authors) THEN c
    ELSE LET gold_author == find_gold_author(authors[i], gold_by_name, 1)
         IN  score_authors(
                IF gold_author = None THEN c
                ELSE score_author(c, k, i, authors[i], gold_author),
                k, authors, i + 1, gold_by_name)

\* the body of "for pred_paper in predictions" for the k-th paper, which has
\* a gold paper; pred_scan and gold_scan are the iteration orders of the
\* two sets of names
evaluate_paper(c, k, pred_paper, gold_paper, pred_scan, gold_scan) ==
    LET pred_authors == {pred_paper.authors[i].name :
                            i \in 1..Len(pred_paper.authors)}
        gold_authors == {gold_paper.authors[i].name :
                            i \in 1..Len(gold_paper.authors)}
        m == match_authors(pred_scan, gold_scan, 1, NoMatches)
        c1 == [c EXCEPT
                 !.author_tp = @ + m.author_tp,
                 !.author_fp = @ + Cardinality(pred_authors \ m.matched_pred),
                 !.author_fn = @ + Cardinality(gold_authors \ m.matched_gold),
                 !.matched_pairs =
                     @ \cup {<<k, p[1], p[2]>> : p \in m.pairs}]
    IN  score_authors(c1, k, pred_paper.authors, 1,
                      gold_by_name_of(gold_paper.authors))

\* the counters before the loop; matched_pairs and scored_pairs record which
\* pairs the two steps handled
ZeroCounters ==
    [author_tp |-> 0, author_fp |-> 0, author_fn |-> 0,
     aff_tp |-> 0, aff_fp |-> 0, aff_fn |-> 0,
     org_correct |-> 0, country_correct |-> 0, org_type_correct |-> 0,
     hierarchical_correct |-> 0, total_matched |-> 0,
     matched_pairs |-> {}, scored_pairs |-> <<>>]

names_of(authors) == {authors[i].name : i \in 1..Len(authors)}

\* the loop over the predictions: the counters it can end with, one for
\* every iteration order of the name sets of every paper
RECURSIVE evaluate_papers(_, _, _)
evaluate_papers(preds, k, cs) ==
    IF k > Len(preds) THEN cs
    ELSE LET pred_paper == preds[k]
             gold_paper == get_paper(pred_paper.arxiv_id)
         IN  evaluate_papers(preds, k + 1,
                IF gold_paper = None THEN cs
                ELSE {evaluate_paper(c, k, pred_paper, gold_paper,
                                     pred_scan, gold_scan) :
                        c \in cs,
                        pred_scan \in scans(names_of(pred_paper.authors)),
                        gold_scan \in scans(names_of(gold_paper.authors))})

\* variant: the arithmetic mean of precision and recall
F1_mean(p, r) ==
    IF p.num > 0 \/ r.num > 0
    THEN [num |-> p.num * r.den + r.num * p.den, den |-> 2 * p.den * r.den]
    ELSE [num |-> 0, den |-> 1]

Zero == [num |-> 0, den |-> 1]
\* a / b where the code has tested b > 0, else the field's default 0.0
Rate(a, b) == IF b > 0 THEN [num |-> a, den |-> b] ELSE Zero
\* 2 * p * r / (p + r) where p + r > 0, else 0.0
F1(p, r) ==
    IF p.num > 0 \/ r.num > 0
    THEN [num |-> 2 * p.num * r.num, den |-> p.num * r.den + r.num * p.den]
    ELSE Zero

RECURSIVE sum_lengths(_, _)
sum_lengths(papers, i) ==
    IF i > Len(papers) THEN 0
    ELSE Len(papers[i].authors) + sum_lengths(papers, i + 1)

RECURSIVE sum_gold(_, _)
sum_gold(ids, pred_ids) ==
    IF ids = {} THEN 0
    ELSE LET id == CHOOSE x \in ids : TRUE
         IN  (IF id \in pred_ids THEN Len(gold[id].authors) ELSE 0)
             + sum_gold(ids \ {id}, pred_ids)

\* the metrics computed from the counters after the loop
metrics_of(c, preds) ==
    LET total_gold_authors ==
            sum_gold(DOMAIN gold, {preds[i].arxiv_id : i \in 1..Len(preds)})
        total_pred_authors == sum_lengths(preds, 1)
        author_precision == Rate(c.author_tp, c.author_tp + c.author_fp)
        author_recall == Rate(c.author_tp, c.author_tp + c.author_fn)
        affiliation_precision == Rate(c.aff_tp, c.aff_tp + c.aff_fp)
        affiliation_recall == Rate(c.aff_tp, c.aff_tp + c.aff_fn)
    IN  [author_precision |-> author_precision,
         author_recall |-> author_recall,
         author_f1 |-> F1(author_precision, author_recall),
         affiliation_precision |-> affiliation_precision,
         affiliation_recall |-> affiliation_recall,
         affiliation_f1 |-> F1(affiliation_precision, affiliation_recall),
         org_normalization_accuracy |-> Rate(c.org_correct, c.total_matched),
         country_accuracy |-> Rate(c.country_correct, c.total_matched),
         org_type_accuracy |-> Rate(c.org_type_correct, c.total_matched),
         hierarchical_accuracy |->
             Rate(c.hierarchical_correct, c.total_matched),
         author_hallucination_rate |-> Rate(c.author_fp, total_pred_authors),
         affiliation_hallucination_rate |->
             Rate(c.aff_fp, c.aff_tp + c.aff_fp),
         total_gold_authors |-> total_gold_authors,
         total_pred_authors |-> total_pred_authors,
         matched_authors |-> c.author_tp]

\* evaluate_extraction(predictions): one call, on the store and the
\* predictions of the initial state; evalOut is None until it has returned
evaluate_extraction ==
    /\ evalOut = None
    /\ \E c \in evaluate_papers(predictions, 1, {ZeroCounters}) :
          evalOut' = [metrics |-> metrics_of(c, predictions), counters |-> c]
    /\ UNCHANGED <<gold, predictions>>
    /\ UNCHANGED <<normVars, fullVars, storeVars, rorVars, taskVars,
                 graphVars>>

NormIdle ==
    /\ fuzzy_threshold = DefaultFuzzyThreshold
    /\ use_llm_fallback = FALSE
    /\ enable_ror = FALSE
    /\ cache = <<>>
    /\ lastInput = NoCall
    /\ lastResult = None
    /\ lastTrace = <<>>
    /\ lastLlm = NotCalled

InitEval ==
    /\ gold \in GoldStores
    /\ predictions \in PredictionLists
    /\ evalOut = None
    /\ NormIdle
    /\ FullIdle
    /\ StoreIdle
    /\ RorIdle
    /\ TaskIdle
    /\ GraphIdle

NextEval == evaluate_extraction

SpecEval == InitEval /\ [][NextEval]_vars

-----------------------------------------------------------------------------
(* EvaluationEngine.evaluate_agent, evaluate_engineering and evaluate_full  *)
(* (evaluation.py:498-703). Floats are exact rationals in lowest terms.     *)

RECURSIVE GCD(_, _)
GCD(a, b) == IF b = 0 THEN a ELSE GCD(b, a % b)
RatNorm(r) ==
    IF r.num = 0 THEN [num |-> 0, den |-> 1]
    ELSE LET g == GCD(r.num, r.den)
         IN  [num |-> r.num \div g, den |-> r.den \div g]
RatAdd(p, q) ==
    RatNorm([num |-> p.num * q.den + q.num * p.den, den |-> p.den * q.den])
\* p * a / b for integers a, b
RatScale(p, a, b) == RatNorm([num |-> p.num * a, den |-> p.den * b])
RatMin(p, q) == IF RatLeq(p, q) THEN p ELSE q
RatMax(p, q) == IF RatLeq(p, q) THEN q ELSE p

\* an optional argument: None when it is not passed, Some(v) when it is
Some(v) == [value |-> v]

\* the stage names of the run logs; "unknown" is log.get's default
Stages == {"arxiv_search", "pdf_download", "pdf_parse", "llm_extract",
           "unknown"}
log_stage(log) == IF "stage" \in DOMAIN log THEN log.stage ELSE "unknown"
log_success(log) == IF "success" \in DOMAIN log THEN log.success ELSE FALSE

\* the dataclass defaults (evaluation.py:57-127)
ExtractionMetrics ==
    [author_precision |-> Zero, author_recall |-> Zero, author_f1 |-> Zero,
     affiliation_precision |-> Zero, affiliation_recall |-> Zero,
     affiliation_f1 |-> Zero, org_normalization_accuracy |-> Zero,
     country_accuracy |-> Zero, org_type_accuracy |-> Zero,
     hierarchical_accuracy |-> Zero, author_hallucination_rate |-> Zero,
     affiliation_hallucination_rate |-> Zero, total_gold_authors |-> 0,
     total_pred_authors |-> 0, matched_authors |-> 0]
AgentMetrics ==
    [tool_success_rate |-> Zero, arxiv_api_success |-> Zero,
     pdf_download_success |-> Zero, pdf_parse_success |-> Zero,
     llm_extraction_success |-> Zero, e2e_success_rate |-> Zero,
     papers_fully_processed |-> 0, papers_partial |-> 0, papers_failed |-> 0,
     errors_by_stage |-> <<>>]
EngineeringMetrics ==
    [total_time_seconds |-> Zero, avg_time_per_paper |-> Zero,
     time_by_stage |-> <<>>, total_input_tokens |-> 0,
     total_output_tokens |-> 0, estimated_cost_usd |-> Zero,
     total_api_calls |-> 0, api_calls_by_source |-> <<>>,
     cache_hit_rate |-> Zero, cached_pdfs |-> 0, downloaded_pdfs |-> 0]

\* EvaluationEngine.evaluate_agent
evaluate_agent(run_logs, papers) ==
    LET stage_attempts == [stage \in Stages |->
            Cardinality({i \in 1..Len(run_logs) :
                            log_stage(run_logs[i]) = stage})]
        stage_successes == [stage \in Stages |->
            Cardinality({i \in 1..Len(run_logs) :
                            /\ log_stage(run_logs[i]) = stage
                            /\ log_success(run_logs[i])})]
        completed(paper) == paper.processing_status = "completed"
        full(paper) ==
            /\ paper.authors # <<>>
            /\ \E i \in 1..Len(paper.authors) :
                  truthy(paper.authors[i].normalized_affiliation)
        count(P(_)) == Cardinality({i \in 1..Len(papers) : P(papers[i])})
        is_full(paper) == completed(paper) /\ full(paper)
        is_partial(paper) == completed(paper) /\ ~full(paper)
        is_failed(paper) == ~completed(paper)
        attempted == {stage \in Stages : stage_attempts[stage] > 0}
    IN  [tool_success_rate |->
             Rate(Len(SelectSeq(run_logs, log_success)), Len(run_logs)),
         arxiv_api_success |->
             Rate(stage_successes["arxiv_search"],
                  stage_attempts["arxiv_search"]),
         pdf_download_success |->
             Rate(stage_successes["pdf_download"],
                  stage_attempts["pdf_download"]),
         pdf_parse_success |->
             Rate(stage_successes["pdf_parse"], stage_attempts["pdf_parse"]),
         llm_extraction_success |->
             Rate(stage_successes["llm_extract"],
                  stage_attempts["llm_extract"]),
         e2e_success_rate |-> Rate(count(is_full), Len(papers)),
         papers_fully_processed |-> count(is_full),
         papers_partial |-> count(is_partial),
         papers_failed |-> count(is_failed),
         errors_by_stage |->
             [stage \in attempted |->
                 stage_attempts[stage] - stage_successes[stage]]]

\* dict.get(key, 0)
get0(d, key) == IF key \in DOMAIN d THEN d[key] ELSE 0

RECURSIVE sum_values(_, _)
sum_values(d, keys) ==
    IF keys = {} THEN 0
    ELSE LET k == CHOOSE x \in keys : TRUE
         IN  d[k] + sum_values(d, keys \ {k})

\* the truth value of an optional dict or list: None and empty are false
given(opt) == opt # None /\ DOMAIN opt.value # {}
\* the truth value of an optional number: None and 0 are false
nonzero(opt) == opt # None /\ opt.value # 0

\* EvaluationEngine.evaluate_engineering
evaluate_engineering(start_time, end_time, papers_count, token_usage, api_calls, cache_stats) ==
    LET total_time_seconds == end_time - start_time
        total_input_tokens ==
            IF given(token_usage) THEN get0(token_usage.value, "input") ELSE 0
        total_output_tokens ==
            IF given(token_usage) THEN get0(token_usage.value, "output") ELSE 0
        hits == IF given(cache_stats) THEN get0(cache_stats.value, "hits")
                ELSE 0
        misses == IF given(cache_stats) THEN get0(cache_stats.value, "misses")
                  ELSE 0
    IN  [total_time_seconds |-> [num |-> total_time_seconds, den |-> 1],
         avg_time_per_paper |->
             IF papers_count > 0
             THEN RatNorm([num |-> total_time_seconds, den |-> papers_count])
             ELSE Zero,
         time_by_stage |-> <<>>,
         total_input_tokens |-> total_input_tokens,
         total_output_tokens |-> total_output_tokens,
         \* $0.15 and $0.60 per million tokens
         estimated_cost_usd |->
             RatNorm([num |-> total_input_tokens * 15
                              + total_output_tokens * 60,
                      den |-> 100000000]),
         total_api_calls |->
             IF given(api_calls)
             THEN sum_values(api_calls.value, DOMAIN api_calls.value) ELSE 0,
         api_calls_by_source |->
             IF given(api_calls) THEN api_calls.value ELSE <<>>,
         cache_hit_rate |-> Rate(hits, hits + misses),
         cached_pdfs |-> hits,
         downloaded_pdfs |-> misses]

\* the composite score at the end of evaluate_full
overall_quality_score_of(extraction, agent, engineering) ==
    LET extraction_score ==
            IF extraction.author_f1.num > 0
            THEN RatAdd(RatAdd(RatScale(extraction.author_f1, 3, 10),
                               RatScale(extraction.affiliation_f1, 3, 10)),
                        RatScale(extraction.hierarchical_accuracy, 4, 10))
            ELSE Zero
        agent_score == agent.e2e_success_rate
        baseline_time == [num |-> 60, den |-> 1]
        slowest == RatMax(engineering.avg_time_per_paper,
                          [num |-> 1, den |-> 1])
        time_score ==
            RatMin([num |-> 1, den |-> 1],
                   RatNorm([num |-> baseline_time.num * slowest.den,
                            den |-> slowest.num]))
    IN  RatAdd(RatAdd(RatScale(extraction_score, 60, 100),
                      RatScale(agent_score, 25, 100)),
               RatScale(time_score, 15, 100))

\* PaperMetadata with the field evaluate_agent reads as well
FullPapers ==
    {[arxiv_id |-> id, authors |-> as, processing_status |-> st] :
        id \in GoldPaperIds,
        as \in SeqsUpTo({PredAuthorPool[1], PredAuthorPool[4]}, 1),
        st \in {"completed", "failed"}}
FullPredictionLists == SeqsUpTo(FullPapers, MaxPapers)
FullGoldStores ==
    {<<>>} \cup {(p.paper_id :> p) : p \in {q \in GoldPapers :
                                              Len(q.authors) = 1}}

RunLogs ==
    {None, Some(<<>>),
     Some(<<[stage |-> "arxiv_search", success |-> TRUE]>>),
     Some(<<[stage |-> "arxiv_search", success |-> TRUE],
            [stage |-> "pdf_download", success |-> FALSE]>>),
     Some(<<[stage |-> "pdf_parse", success |-> TRUE],
            [stage |-> "llm_extract"], [success |-> TRUE]>>)}
StartTimes == {None, Some(0), Some(100)}
EndTimes == {None, Some(160), Some(400)}
\* token_usage, api_calls and cache_stats, passed together or not at all
Usages ==
    {[token_usage |-> None, api_calls |-> None, cache_stats |-> None],
     [token_usage |-> Some([input |-> 1000, output |-> 2000]),
      api_calls |-> Some([arxiv |-> 3, semantic_scholar |-> 2]),
      cache_stats |-> Some([hits |-> 3, misses |-> 1])],
     [token_usage |-> Some([input |-> 1000]),
      api_calls |-> Some(<<>>),
      cache_stats |-> Some([hits |-> 0, misses |-> 0])]}
FullArgs ==
    {[run_logs |-> l, start_time |-> s, end_time |-> e,
      token_usage |-> u.token_usage, api_calls |-> u.api_calls,
      cache_stats |-> u.cache_stats] :
        l \in RunLogs, s \in StartTimes, e \in EndTimes, u \in Usages}

\* evaluate_full(predictions, run_logs, start_time, end_time, token_usage,
\* api_calls, cache_stats): one call; report.timestamp, the clock reading,
\* is not kept
evaluate_full ==
    /\ report = None
    /\ \E extraction \in
            (IF DOMAIN gold # {}
             THEN {metrics_of(c, predictions) :
                      c \in evaluate_papers(predictions, 1, {ZeroCounters})}
             ELSE {ExtractionMetrics}) :
         LET agent ==
                 IF given(args.run_logs)
                 THEN evaluate_agent(args.run_logs.value, predictions)
                 ELSE AgentMetrics
             engineering ==
                 IF nonzero(args.start_time) /\ nonzero(args.end_time)
                 THEN evaluate_engineering(
                          args.start_time.value, args.end_time.value,
                          Len(predictions), args.token_usage,
                          args.api_calls, args.cache_stats)
                 ELSE EngineeringMetrics
         IN  report' =
                 [extraction |-> extraction,
                  agent |-> agent,
                  engineering |-> engineering,
                  overall_quality_score |->
                      overall_quality_score_of(extraction, agent,
                                               engineering)]
    /\ UNCHANGED <<gold, predictions, evalOut, args>>
    /\ UNCHANGED <<normVars, storeVars, rorVars, taskVars,
                 graphVars>>

InitFull ==
    /\ gold \in FullGoldStores
    /\ predictions \in FullPredictionLists
    /\ evalOut = None
    /\ args \in FullArgs
    /\ report = None
    /\ NormIdle
    /\ StoreIdle
    /\ RorIdle
    /\ TaskIdle
    /\ GraphIdle

NextFull == evaluate_full

SpecFull == InitFull /\ [][NextFull]_vars

-----------------------------------------------------------------------------
(* GoldStandardDataset: __init__, load, save, add_paper                     *)
(* (evaluation.py:154-225). The file is the parsed JSON document; json.dump *)
(* and json.load are taken to carry every string and list over unchanged.   *)

\* the fields of the GoldAuthor dataclass (evaluation.py:35-42)
GoldAuthorFields ==
    {"name", "raw_affiliation", "normalized_affiliation", "country",
     "country_code", "org_type"}

\* the default of GoldPaper.source
DefaultSource == <<"m","a","n","u","a","l">>

\* dict.get(key, default) on a JSON object
get_or(d, key, default) == IF key \in DOMAIN d THEN d[key] ELSE default

GoldPaper_always_manual(paper_data, authors) ==
    [paper_id |-> paper_data.paper_id,
     title |-> get_or(paper_data, "title", EmptyStr),
     authors |-> authors,
     source |-> DefaultSource,
     annotator |-> get_or(paper_data, "annotator", EmptyStr),
     annotation_date |-> get_or(paper_data, "annotation_date", EmptyStr),
     notes |-> get_or(paper_data, "notes", EmptyStr)]

\* GoldAuthor(**author) for a dict with exactly the dataclass's fields
GoldAuthor_of(author) ==
    [name |-> author.name,
     raw_affiliation |-> author.raw_affiliation,
     normalized_affiliation |-> author.normalized_affiliation,
     country |-> author.country,
     country_code |-> author.country_code,
     org_type |-> author.org_type]

\* GoldPaper(paper_id=paper_data["paper_id"], title=paper_data.get(...), ...)
GoldPaper_of(paper_data, authors) ==
    [paper_id |-> paper_data.paper_id,
     title |-> get_or(paper_data, "title", EmptyStr),
     authors |-> authors,
     source |-> get_or(paper_data, "source", DefaultSource),
     annotator |-> get_or(paper_data, "annotator", EmptyStr),
     annotation_date |-> get_or(paper_data, "annotation_date", EmptyStr),
     notes |-> get_or(paper_data, "notes", EmptyStr)]

\* the loop of load(): the papers dict when the loop ends, and the exception
\* that ended it ("none" when it ran to the end). GoldAuthor(**author) raises
\* TypeError for a missing or an unexpected keyword, paper_data["paper_id"]
\* raises KeyError; the authors are built before paper_id is read.
RECURSIVE load_papers(_, _, _)
load_papers(entries, i, papers) ==
    IF i > Len(entries) THEN [papers |-> papers, raised |-> "none"]
    ELSE LET paper_data == entries[i]
             author_dicts == get_or(paper_data, "authors", <<>>)
         IN  IF \E j \in 1..Len(author_dicts) :
                    DOMAIN author_dicts[j] # GoldAuthorFields
             THEN [papers |-> papers, raised |-> "TypeError"]
             ELSE IF "paper_id" \notin DOMAIN paper_data
             THEN [papers |-> papers, raised |-> "KeyError"]
             ELSE LET authors == [j \in 1..Len(author_dicts) |->
                                     GoldAuthor_of(author_dicts[j])]
                      paper == GoldPaper_of(paper_data, authors)
                  IN  load_papers(entries, i + 1,
                                  dict_put(papers, paper.paper_id, paper))

\* load() into the dict papers from the document data
load_into(data, papers) == load_papers(get_or(data, "papers", <<>>), 1, papers)

RECURSIVE count_authors(_, _)
count_authors(papers, i) ==
    IF i > Len(papers) THEN 0
    ELSE Len(papers[i].v.authors) + count_authors(papers, i + 1)

\* the document save() writes; "created", the clock reading, is left out
save_document(papers) ==
    [version |-> "1.0",
     total_papers |-> Len(papers),
     total_authors |-> count_authors(papers, 1),
     papers |-> [i \in 1..Len(papers) |->
        LET p == papers[i].v
        IN  [paper_id |-> p.paper_id,
             title |-> p.title,
             authors |-> [j \in 1..Len(p.authors) |->
                             GoldAuthor_of(p.authors[j])],
             source |-> p.source,
             annotator |-> p.annotator,
             annotation_date |-> p.annotation_date,
             notes |-> p.notes]]]

\* GoldStandardDataset(path): a new store; it loads the file when there is
\* one, and an exception of load() leaves the caller without a store
GoldStandardDataset_init ==
    /\ IF file = None
       THEN /\ dataset' = [papers |-> <<>>]
            /\ lastCall' = [op |-> "__init__", raised |-> "none"]
       ELSE LET r == load_into(file.value, <<>>)
            IN  /\ dataset' = IF r.raised = "none"
                              THEN [papers |-> r.papers] ELSE None
                /\ lastCall' = [op |-> "__init__", raised |-> r.raised]
    /\ UNCHANGED <<file, saved>>
    /\ UNCHANGED <<normVars, evalVars, fullVars, rorVars, taskVars,
                 graphVars>>

\* load() on the store: the papers read before an exception stay in the dict
load ==
    /\ dataset # None
    /\ IF file = None
       THEN /\ lastCall' = [op |-> "load", raised |-> "FileNotFoundError"]
            /\ UNCHANGED dataset
       ELSE LET r == load_into(file.value, dataset.papers)
            IN  /\ dataset' = [papers |-> r.papers]
                /\ lastCall' = [op |-> "load", raised |-> r.raised]
    /\ UNCHANGED <<file, saved>>
    /\ UNCHANGED <<normVars, evalVars, fullVars, rorVars, taskVars,
                 graphVars>>

\* save()
save ==
    /\ dataset # None
    /\ file' = Some(save_document(dataset.papers))
    /\ saved' = dataset
    /\ lastCall' = [op |-> "save", raised |-> "none"]
    /\ UNCHANGED dataset
    /\ UNCHANGED <<normVars, evalVars, fullVars, rorVars, taskVars,
                 graphVars>>

\* add_paper(paper)
add_paper(paper) ==
    /\ dataset # None
    /\ dataset' = [papers |-> dict_put(dataset.papers, paper.paper_id, paper)]
    /\ lastCall' = [op |-> "add_paper", raised |-> "none"]
    /\ UNCHANGED <<file, saved>>
    /\ UNCHANGED <<normVars, evalVars, fullVars, rorVars, taskVars,
                 graphVars>>

\* the GoldPaper objects a caller adds
StorePaperIds == {"2401.00001", "2401.00002"}
StoreAuthorLists ==
    {<<>>, <<GoldAuthorPool[1], GoldAuthorPool[2]>>,
     <<GoldAuthorPool[2], GoldAuthorPool[1]>>}
StorePapers ==
    {[paper_id |-> id, title |-> EmptyStr, authors |-> as,
      source |-> DefaultSource, annotator |-> EmptyStr,
      annotation_date |-> EmptyStr, notes |-> EmptyStr] :
        id \in StorePaperIds, as \in StoreAuthorLists}
    \cup
    {[paper_id |-> id, title |-> <<"T">>, authors |-> as,
      source |-> <<"g","r","o","b","i","d">>, annotator |-> <<"a","n","n">>,
      annotation_date |-> <<"2","0","2","4">>, notes |-> <<"n">>] :
        id \in StorePaperIds, as \in StoreAuthorLists}

\* hand-written files found at the path before the first store is built
EntryA == [paper_id |-> "2401.00001",
           authors |-> <<GoldAuthorPool[1]>>]
EntryB == [paper_id |-> "2401.00002", title |-> <<"T">>,
           authors |-> <<GoldAuthorPool[3]>>, source |-> EmptyStr]
EntryNoId == [title |-> <<"T">>, authors |-> <<GoldAuthorPool[2]>>]
EntryAuthorMissingField ==
    [paper_id |-> "2401.00003",
     authors |-> <<[name |-> GoldAuthorPool[2].name,
                    raw_affiliation |-> EmptyStr]>>]
EntryAuthorUnknownField ==
    [paper_id |-> "2401.00003",
     authors |-> <<[name |-> GoldAuthorPool[2].name,
                    raw_affiliation |-> EmptyStr,
                    normalized_affiliation |-> EmptyStr,
                    country |-> EmptyStr, country_code |-> EmptyStr,
                    org_type |-> "", email |-> EmptyStr]>>]
InitialFiles ==
    {None,
     Some([version |-> "1.0"]),
     Some([papers |-> <<EntryA, EntryB>>]),
     Some([papers |-> <<EntryA, EntryNoId, EntryB>>]),
     Some([papers |-> <<EntryA, EntryAuthorMissingField, EntryB>>]),
     Some([papers |-> <<EntryA, EntryAuthorUnknownField, EntryB>>]),
     Some([papers |-> <<EntryNoId>>])}

InitStore ==
    /\ file \in InitialFiles
    /\ dataset = None
    /\ saved = None
    /\ lastCall = NoCallYet
    /\ NormIdle
    /\ EvalIdle
    /\ FullIdle
    /\ RorIdle
    /\ TaskIdle
    /\ GraphIdle

NextStore ==
    \/ GoldStandardDataset_init
    \/ load
    \/ save
    \/ \E paper \in StorePapers : add_paper(paper)

SpecStore == InitStore /\ [][NextStore]_vars

-----------------------------------------------------------------------------
(* RORLookup.lookup, _search and _convert_result                            *)
(* (data_sources/ror.py:156-294)                                            *)

\* cache_size, the number of candidates scanned, the least accepted score,
\* and the attempts of one request (stop_after_attempt)
RorCacheSize == 1000
TopCandidates == 5
RorMinScore == 60
RequestAttempts == 3

\* two entries of ABBREVIATION_MAP
ABBREVIATION_MAP ==
    (<<"e","t","h">> :> <<"E","T","H"," ","Z","u","r","i","c","h">>)
    @@ (<<"m","s","r">> :> <<"M","i","c","r","o","s","o","f","t">>)

\* the organization names passed to lookup
RorQueries ==
    {<<"a","b","c">>, <<" ","A","B","C">>, <<"E","T","H">>}

\* organization names that give four cache keys
CacheQueries ==
    RorQueries \cup {<<"m","s","r">>, <<"x","y","z">>}

\* registry records: id and names (value, types); the other keys of a
\* record are absent, so _convert_result takes their defaults
ItemA ==
    [id |-> "https://ror.org/a",
     names |-> <<[value |-> <<"a","b","c","d","e","f","g">>,
                  types |-> {"ror_display"}],
                 [value |-> EmptyStr, types |-> {"alias"}]>>]
ItemB ==
    [id |-> "https://ror.org/b",
     names |-> <<[value |-> <<"x","y","z">>, types |-> {"acronym"}],
                 [value |-> <<"A","b","c">>, types |-> {"ror_display"}],
                 [value |-> <<"E","T","H"," ","Z","u","r","i","c","h">>,
                  types |-> {"alias"}]>>]
ItemC ==
    [id |-> "https://ror.org/c",
     names |-> <<[types |-> {"label"}],
                 [value |-> <<"Z","u","r","i","c","h"," ","E","T","H">>,
                  types |-> {"ror_display"}]>>]
RorItems == {ItemA, ItemB, ItemC}

\* the longest list of items in a search response
MaxItems == 6
Responses == SeqsUpTo(RorItems, MaxItems)

\* what the three attempts of _make_request come to: the response after so
\* many attempts, or the exception after the last one
NetworkOutcomes ==
    {[ok |-> TRUE, attempts |-> 1],
     [ok |-> TRUE, attempts |-> RequestAttempts],
     [ok |-> FALSE, attempts |-> RequestAttempts]}

\* the texts _search compares, and their scores tabulated once
RorSearchNames ==
    {IF strip(lower(q)) \in DOMAIN ABBREVIATION_MAP
     THEN ABBREVIATION_MAP[strip(lower(q))] ELSE q : q \in CacheQueries}
RorNameValues ==
    UNION {{item.names[j].value :
              j \in {i \in 1..Len(item.names) :
                        "value" \in DOMAIN item.names[i]}} : item \in RorItems}
ror_score_table ==
    [org_name \in RorSearchNames |-> [name \in RorNameValues |->
        token_sort_ratio(lower(org_name), lower(name))]]

\* names_to_check: the non-empty values of the item's names
RECURSIVE names_to_check(_, _)
names_to_check(names, j) ==
    IF j > Len(names) THEN <<>>
    ELSE LET name_value == get_or(names[j], "value", EmptyStr)
         IN  (IF name_value # EmptyStr THEN <<name_value>> ELSE <<>>)
             \o names_to_check(names, j + 1)

\* the inner loop of _search over the names of one item
RECURSIVE scan_names(_, _, _, _, _)
scan_names(org_name, item, names, j, best) ==
    IF j > Len(names) THEN best
    ELSE LET score == ror_score_table[org_name][names[j]]
         IN  scan_names(org_name, item, names, j + 1,
                        IF RatLess(best.best_score, score)
                        THEN [best_match |-> item, best_score |-> score]
                        ELSE best)

\* the outer loop of _search over the items
RECURSIVE scan_items(_, _, _, _)
scan_items(org_name, items, i, best) ==
    IF i > Len(items) THEN best
    ELSE scan_items(org_name, items, i + 1,
                    scan_names(org_name, items[i],
                               names_to_check(get_or(items[i], "names", <<>>),
                                              1),
                               1, best))

all_items(items) == items

\* items[:5]
top_items(items) ==
    SubSeq(items, 1, IF Len(items) < TopCandidates THEN Len(items)
                     ELSE TopCandidates)

\* the names of _convert_result: the last ror_display value, and the alias
\* and acronym values in order
RECURSIVE canonical_name_of(_, _, _)
canonical_name_of(names, j, canonical_name) ==
    IF j > Len(names) THEN canonical_name
    ELSE canonical_name_of(names, j + 1,
            IF "ror_display" \in get_or(names[j], "types", {})
            THEN get_or(names[j], "value", EmptyStr)
            ELSE canonical_name)

RECURSIVE aliases_of(_, _)
aliases_of(names, j) ==
    IF j > Len(names) THEN <<>>
    ELSE LET name_types == get_or(names[j], "types", {})
         IN  (IF /\ "ror_display" \notin name_types
                 /\ ("alias" \in name_types \/ "acronym" \in name_types)
              THEN <<get_or(names[j], "value", EmptyStr)>> ELSE <<>>)
             \o aliases_of(names, j + 1)

\* RORLookup._convert_result for a record without locations, types, links
RORLookup_convert_result(data, confidence) ==
    [ror_id |-> get_or(data, "id", "None"),
     name |-> canonical_name_of(get_or(data, "names", <<>>), 1, EmptyStr),
     country |-> "Unknown",
     country_code |-> "XX",
     type |-> "unknown",
     aliases |-> aliases_of(get_or(data, "names", <<>>), 1),
     links |-> <<>>,
     wikipedia_url |-> "None",
     confidence |-> confidence]

\* RORLookup._search: net is what the request came to, data its response
RORLookup_search(org_name, net, data) ==
    IF ~net.ok THEN None
    ELSE LET items == get_or(data, "items", <<>>)
             best == scan_items(org_name, top_items(items), 1,
                                [best_match |-> None, best_score |-> Zero])
         IN  IF items = <<>> THEN None
             ELSE IF ~RatGeq(best.best_score, RorMinScore) THEN None
             ELSE RORLookup_convert_result(
                      best.best_match, RatScale(best.best_score, 1, 100))

\* a client that finds no key in its cache
cache_has_nothing(d, key) == FALSE

\* key in self._cache, self._cache[key]
cache_has(d, key) == \E i \in 1..Len(d) : d[i].k = key
cache_get(d, key) == d[CHOOSE i \in 1..Len(d) : d[i].k = key].v

\* the last key of the dict
newest_key(d) == d[Len(d)].k

\* oldest_key = next(iter(self._cache)): the first key in iteration order
oldest_key(d) == Head(d).k

\* del self._cache[key]
cache_del(d, key) == SelectSeq(d, LAMBDA e : e.k # key)

\* RORLookup.lookup(org_name); outcomes is what the request of a miss may
\* come to
lookup(org_name, outcomes) ==
    LET cache_key == strip(lower(org_name))
        search_name ==
            IF cache_key \in DOMAIN ABBREVIATION_MAP
            THEN ABBREVIATION_MAP[cache_key] ELSE org_name
        full == Len(ror_cache) >= cache_size
    IN
    /\ IF cache_has(ror_cache, cache_key)
       THEN /\ lastLookup' = [op |-> "lookup", org_name |-> org_name,
                              hit |-> TRUE, search_name |-> NullText,
                              net |-> None,
                              result |-> cache_get(ror_cache, cache_key),
                              evicted |-> NullText, raised |-> "None"]
            /\ UNCHANGED <<ror_cache, request_count>>
       ELSE \E net \in outcomes :
            LET result == RORLookup_search(search_name, net,
                                           [items |-> registry])
            IN  /\ request_count' = request_count + net.attempts
                /\ IF full /\ ror_cache = <<>>
                   THEN \* next(iter({})) raises StopIteration
                        /\ UNCHANGED ror_cache
                        /\ lastLookup' =
                               [op |-> "lookup", org_name |-> org_name,
                                hit |-> FALSE, search_name |-> search_name,
                                net |-> net, result |-> None,
                                evicted |-> NullText,
                                raised |-> "StopIteration"]
                   ELSE /\ ror_cache' =
                               dict_put(IF full
                                        THEN cache_del(ror_cache,
                                                 oldest_key(ror_cache))
                                        ELSE ror_cache,
                                        cache_key, result)
                        /\ lastLookup' =
                               [op |-> "lookup", org_name |-> org_name,
                                hit |-> FALSE, search_name |-> search_name,
                                net |-> net, result |-> result,
                                evicted |-> IF full
                                            THEN oldest_key(ror_cache)
                                            ELSE NullText,
                                raised |-> "None"]
    /\ UNCHANGED <<registry, cache_size>>
    /\ UNCHANGED <<normVars, evalVars, fullVars, storeVars, taskVars,
                 graphVars>>

InitRor ==
    /\ registry \in Responses
    /\ ror_cache = <<>>
    /\ request_count = 0
    /\ cache_size = RorCacheSize
    /\ lastLookup = None
    /\ NormIdle
    /\ EvalIdle
    /\ FullIdle
    /\ StoreIdle
    /\ TaskIdle
    /\ GraphIdle

NextRor == \E org_name \in RorQueries : lookup(org_name, NetworkOutcomes)

SpecRor == InitRor /\ [][NextRor]_vars

-----------------------------------------------------------------------------
(* RORLookup._make_request under @retry, get_by_id, clear_cache and the     *)
(* capacity of the cache (data_sources/ror.py:119-248, 306-308)             *)

\* what one attempt of _make_request ends in: the parsed response, or the
\* exception raised by self._client.get or response.raise_for_status
AttemptResults ==
    {[exc |-> "None", status |-> 200],
     [exc |-> "TimeoutException", status |-> 0],
     [exc |-> "ConnectError", status |-> 0],
     [exc |-> "HTTPStatusError", status |-> 404],
     [exc |-> "HTTPStatusError", status |-> 500]}

\* what the transport answers to the first, second and third attempt
AttemptScripts == [1..RequestAttempts -> AttemptResults]

\* the attempt that ends the call: the first that returns, else the last
last_attempt(script) ==
    IF \E i \in 1..RequestAttempts : script[i].exc = "None"
    THEN CHOOSE i \in 1..RequestAttempts :
             /\ script[i].exc = "None"
             /\ \A j \in 1..(i - 1) : script[j].exc # "None"
    ELSE RequestAttempts

\* the decorator with reraise=True: the last attempt's own exception
make_request_reraise(script) ==
    LET made == last_attempt(script) IN
    [ok |-> script[made].exc = "None", attempts |-> made,
     error |-> script[made].exc, status |-> script[made].status,
     cause |-> script[made]]

\* RORLookup._make_request: every attempt adds 1 to _request_count; any
\* exception is retried; after the third failure the decorator raises
\* RetryError, which wraps the last attempt
RORLookup_make_request(script) ==
    LET made == last_attempt(script) IN
    [ok |-> script[made].exc = "None", attempts |-> made,
     error |-> IF script[made].exc = "None" THEN "None" ELSE "RetryError",
     status |-> IF script[made].exc = "None" THEN 200 ELSE 0,
     cause |-> script[made]]

RequestOutcomes == {RORLookup_make_request(script) : script \in AttemptScripts}

\* "https://ror.org/"
RorIdPrefix ==
    <<"h","t","t","p","s",":","/","/","r","o","r",".","o","r","g","/">>

startswith(s, prefix) ==
    Len(s) >= Len(prefix) /\ SubSeq(s, 1, Len(prefix)) = prefix

\* s.replace(old, ""): every occurrence of old is removed
RECURSIVE remove_all(_, _)
remove_all(s, old) ==
    IF s = <<>> THEN <<>>
    ELSE IF startswith(s, old)
         THEN remove_all(SubSeq(s, Len(old) + 1, Len(s)), old)
         ELSE <<Head(s)>> \o remove_all(Tail(s), old)

\* the ids passed to get_by_id: a full URL, a bare id, an id the registry
\* does not have
RorIds == {RorIdPrefix \o <<"a">>, <<"b">>, <<"q">>}

\* GET /organizations/{ror_id}
RegistryById == (<<"a">> :> ItemA) @@ (<<"b">> :> ItemB)

\* RORLookup.get_by_id(ror_id)
get_by_id(ror_id, outcomes) ==
    LET bare == IF startswith(ror_id, RorIdPrefix)
                THEN remove_all(ror_id, RorIdPrefix) ELSE ror_id
    IN
    \E net \in outcomes :
        /\ net.ok => bare \in DOMAIN RegistryById
        /\ request_count' = request_count + net.attempts
        /\ lastLookup' =
              [op |-> "get_by_id", org_name |-> ror_id, hit |-> FALSE,
               search_name |-> bare, net |-> net, evicted |-> NullText,
               result |-> IF net.ok
                          THEN RORLookup_convert_result(RegistryById[bare],
                                                        Rate(1, 1))
                          ELSE None,
               raised |-> IF net.ok THEN "None"
                          ELSE IF net.error = "HTTPStatusError"
                               THEN IF net.status = 404 THEN "None"
                                    ELSE "HTTPStatusError"
                               ELSE "None"]
        /\ UNCHANGED <<registry, ror_cache, cache_size>>
        /\ UNCHANGED <<normVars, evalVars, fullVars, storeVars, taskVars,
                     graphVars>>

\* RORLookup.clear_cache()
clear_cache ==
    /\ ror_cache' = <<>>
    /\ lastLookup' = [op |-> "clear_cache", org_name |-> NullText,
                      hit |-> FALSE, search_name |-> NullText,
                      net |-> None, result |-> None, evicted |-> NullText,
                      raised |-> "None"]
    /\ UNCHANGED <<registry, request_count, cache_size>>
    /\ UNCHANGED <<normVars, evalVars, fullVars, storeVars, taskVars,
                 graphVars>>

\* the largest configured cache_size, and the requests after which no
\* further call is made
MaxCacheSize == 2
MaxRequests == 5

CacheRegistries == {<<ItemA, ItemB, ItemC>>, <<>>}

\* RORLookup(cache_size=n) for n in 0..MaxCacheSize
InitRorCache ==
    /\ registry \in CacheRegistries
    /\ ror_cache = <<>>
    /\ request_count = 0
    /\ cache_size \in 0..MaxCacheSize
    /\ lastLookup = None
    /\ NormIdle
    /\ EvalIdle
    /\ FullIdle
    /\ StoreIdle
    /\ TaskIdle
    /\ GraphIdle

NextRorCache ==
    /\ request_count < MaxRequests
    /\ \/ \E org_name \in CacheQueries : lookup(org_name, RequestOutcomes)
       \/ clear_cache

SpecRorCache == InitRorCache /\ [][NextRorCache]_vars

\* RORLookup() with the default cache_size
InitRorClient ==
    /\ registry \in CacheRegistries
    /\ ror_cache = <<>>
    /\ request_count = 0
    /\ cache_size = RorCacheSize
    /\ lastLookup = None
    /\ NormIdle
    /\ EvalIdle
    /\ FullIdle
    /\ StoreIdle
    /\ TaskIdle
    /\ GraphIdle

NextRorClient ==
    /\ request_count < MaxRequests
    /\ \/ \E org_name \in RorQueries : lookup(org_name, RequestOutcomes)
       \/ \E ror_id \in RorIds : get_by_id(ror_id, RequestOutcomes)

SpecRorClient == InitRorClient /\ [][NextRorClient]_vars

-----------------------------------------------------------------------------
(* TaskManager: start_analysis, run_analysis, cancel_task                   *)
(* (api/app.py:151-203, 344-356; api/task_manager.py:141-150, 256-406,      *)
(* 495-502)                                                                 *)

\* the most tasks created in one run of the server
MaxTasks == 3

\* TaskStatusEnum (api/models.py:11-17)
TaskStatusEnum == {"pending", "running", "completed", "failed", "cancelled"}

\* what the executor hands back to run_analysis: the final state of the
\* agent, None, or the exception of _run_agent_sync
AgentResults == {"result", "none", "exception"}

\* the tasks whose status is RUNNING
running_tasks == {t \in 1..Len(tasks) : tasks[t] = "running"}

\* TaskManager.get_active_task: the active task, 0 for None
get_active_task ==
    IF active_task_id # 0 /\ tasks[active_task_id] = "running"
    THEN active_task_id ELSE 0

\* POST /api/analyze: one pass of the endpoint on the event loop
start_analysis ==
    LET active_task == get_active_task IN
    /\ Len(tasks) < MaxTasks
    /\ IF active_task # 0
       THEN /\ lastResponse' = [op |-> "start_analysis", status_code |-> 409,
                                task_id |-> 0,
                                active_task_id |-> active_task,
                                running |-> running_tasks]
            /\ UNCHANGED <<tasks, run, active_task_id>>
       ELSE \* get_active_task has cleared a stale reference
            /\ active_task_id' = 0
            /\ IF ~api_key
               THEN /\ lastResponse' =
                           [op |-> "start_analysis", status_code |-> 500,
                            task_id |-> 0, active_task_id |-> 0,
                            running |-> running_tasks]
                    /\ UNCHANGED <<tasks, run>>
               ELSE \* create_task, background_tasks.add_task
                    /\ tasks' = Append(tasks, "pending")
                    /\ run' = Append(run, "scheduled")
                    /\ lastResponse' =
                           [op |-> "start_analysis", status_code |-> 200,
                            task_id |-> Len(tasks) + 1, active_task_id |-> 0,
                            running |-> running_tasks]
    /\ UNCHANGED api_key
    /\ UNCHANGED <<normVars, evalVars, fullVars, storeVars, rorVars,
                   graphVars>>

\* run_analysis(task_id) up to its await on the executor
run_analysis_start(task_id) ==
    /\ task_id \in 1..Len(tasks)
    /\ run[task_id] = "scheduled"
    /\ active_task_id' = task_id
    /\ tasks' = [tasks EXCEPT ![task_id] = "running"]
    /\ run' = [run EXCEPT ![task_id] = "executing"]
    /\ UNCHANGED <<api_key, lastResponse>>
    /\ UNCHANGED <<normVars, evalVars, fullVars, storeVars, rorVars,
                   graphVars>>

\* run_analysis(task_id) after the await: the result is stored and the task
\* COMPLETED, or the except clause marks it FAILED
run_analysis_finish(task_id, result) ==
    /\ task_id \in 1..Len(tasks)
    /\ run[task_id] = "executing"
    /\ tasks' = [tasks EXCEPT ![task_id] = IF result = "result"
                                          THEN "completed" ELSE "failed"]
    /\ active_task_id' = IF active_task_id = task_id THEN 0
                         ELSE active_task_id
    /\ run' = [run EXCEPT ![task_id] = "done"]
    /\ UNCHANGED <<api_key, lastResponse>>
    /\ UNCHANGED <<normVars, evalVars, fullVars, storeVars, rorVars,
                   graphVars>>

\* POST /api/tasks/{task_id}/cancel
cancel_task(task_id) ==
    /\ IF task_id \in 1..Len(tasks) /\ tasks[task_id] = "running"
       THEN /\ tasks' = [tasks EXCEPT ![task_id] = "cancelled"]
            /\ lastResponse' = [op |-> "cancel_task", status_code |-> 200,
                                task_id |-> task_id, active_task_id |-> 0,
                                running |-> running_tasks]
       ELSE /\ lastResponse' = [op |-> "cancel_task", status_code |-> 400,
                                task_id |-> task_id, active_task_id |-> 0,
                                running |-> running_tasks]
            /\ UNCHANGED tasks
    /\ UNCHANGED <<run, active_task_id, api_key>>
    /\ UNCHANGED <<normVars, evalVars, fullVars, storeVars, rorVars,
                   graphVars>>

\* TaskManager() of a server started with or without OPENAI_API_KEY
InitTasks ==
    /\ tasks = <<>>
    /\ run = <<>>
    /\ active_task_id = 0
    /\ api_key \in BOOLEAN
    /\ lastResponse = None
    /\ NormIdle
    /\ EvalIdle
    /\ FullIdle
    /\ StoreIdle
    /\ RorIdle
    /\ GraphIdle

NextTasks ==
    \/ start_analysis
    \/ \E task_id \in 1..MaxTasks : run_analysis_start(task_id)
    \/ \E task_id \in 1..MaxTasks, result \in AgentResults :
           run_analysis_finish(task_id, result)
    \/ \E task_id \in 1..MaxTasks : cancel_task(task_id)

SpecTasks == InitTasks /\ [][NextTasks]_vars

-----------------------------------------------------------------------------
(* The agent graph: search, download, parse, extract, normalize, aggregate  *)
(* (graph.py:19-91, nodes.py:94-628, state.py:88-146)                       *)

\* the largest max_papers of a run
MaxRunPapers == 5

\* max_retries of create_initial_state as main and the task manager pass it
DefaultMaxRetries == 3
RetryLimits == {0, DefaultMaxRetries}

\* recursion_limit = max_papers * 6 + 20
recursion_limit == max_papers * 6 + 20

\* a paper as the search returns it: PENDING, without a PDF, its authors
\* either carrying a raw affiliation from the API ("api") or absent ("none")
found_paper(authors) ==
    [processing_status |-> "pending", authors |-> authors,
     pdf_path |-> FALSE, found_authors |-> authors]

\* the lists of papers a search returns: every mix of up to two papers, and
\* longer lists of papers without API authors
FoundLists ==
    {<<>>}
    \cup {<<found_paper(a)>> : a \in {"api", "none"}}
    \cup {<<found_paper(a), found_paper(b)>> :
              a \in {"api", "none"}, b \in {"api", "none"}}
    \cup {[i \in 1..n |-> found_paper("none")] : n \in 3..MaxRunPapers}

\* what the data source call of search_papers comes to
SearchResults ==
    {[ok |-> TRUE, papers |-> found] : found \in FoundLists}
    \cup {[ok |-> FALSE, papers |-> <<>>]}

\* PaperMetadata.mark_failed, is_failed
mark_failed(paper) == [paper EXCEPT !.processing_status = "failed"]
is_failed(paper) == paper.processing_status = "failed"

\* a conditional edge that never goes back to extract
continue_without_retry ==
    IF should_stop THEN "aggregate"
    ELSE IF current_index < Len(state_papers) THEN "download"
    ELSE "aggregate"

\* should_continue_processing on the state the normalize node leaves
should_continue_processing ==
    IF retry_count > 0 /\ retry_count <= max_retries THEN "extract"
    ELSE IF should_stop THEN "aggregate"
    ELSE IF current_index < Len(state_papers) THEN "download"
    ELSE "aggregate"

\* a node may run: the graph has not ended and the step budget is not spent
may_run(name) == node = name /\ step_count < recursion_limit

\* search_papers
search_papers(found) ==
    /\ may_run("search")
    /\ IF ~found.ok
       THEN /\ state_papers' = <<>>
            /\ should_stop' = TRUE
            /\ UNCHANGED <<current_index, processed_count, error_count>>
       ELSE /\ Len(found.papers) <= max_papers
            /\ state_papers' = found.papers
            /\ current_index' = 0
            /\ processed_count' = 0
            /\ error_count' = 0
            /\ UNCHANGED should_stop
    /\ node' = "download"
    /\ step_count' = step_count + 1
    /\ lastStep' = [node |-> "search",
                    outcome |-> IF found.ok THEN "found" ELSE "exception",
                    run |-> 0]
    /\ UNCHANGED <<retry_count, max_retries, max_papers, extract_runs>>
    /\ UNCHANGED <<normVars, evalVars, fullVars, storeVars, rorVars,
                   taskVars>>

\* download_paper; fetched is whether the cache or a download gave a PDF
download_paper(fetched) ==
    LET idx == current_index
        paper == state_papers[idx + 1]
    IN
    /\ may_run("download")
    /\ IF idx >= Len(state_papers)
       THEN /\ fetched
            /\ UNCHANGED <<state_papers, error_count>>
            /\ lastStep' = [node |-> "download", outcome |-> "nothing",
                            run |-> 0]
       ELSE IF fetched
       THEN /\ state_papers' =
                   [state_papers EXCEPT ![idx + 1] =
                       [paper EXCEPT !.pdf_path = TRUE,
                                     !.processing_status = "downloaded"]]
            /\ UNCHANGED error_count
            /\ lastStep' = [node |-> "download", outcome |-> "downloaded",
                            run |-> 0]
       ELSE IF paper.authors = "api"
       THEN /\ state_papers' =
                   [state_papers EXCEPT ![idx + 1] =
                       [paper EXCEPT !.processing_status = "extracted"]]
            /\ UNCHANGED error_count
            /\ lastStep' = [node |-> "download", outcome |-> "api_authors",
                            run |-> 0]
       ELSE /\ state_papers' =
                   [state_papers EXCEPT ![idx + 1] = mark_failed(paper)]
            /\ error_count' = error_count + 1
            /\ lastStep' = [node |-> "download", outcome |-> "failed",
                            run |-> 0]
    /\ node' = "parse"
    /\ step_count' = step_count + 1
    /\ UNCHANGED <<current_index, processed_count, should_stop, retry_count,
                   max_retries, max_papers, extract_runs>>
    /\ UNCHANGED <<normVars, evalVars, fullVars, storeVars, rorVars,
                   taskVars>>

\* parse_pdf; opened is whether fitz.open and get_text went through (for a
\* paper without pdf_path the library decides what open(None) does)
parse_pdf(opened) ==
    LET idx == current_index
        paper == state_papers[idx + 1]
    IN
    /\ may_run("parse")
    /\ step_count' = step_count + 1
    /\ IF idx >= Len(state_papers)
       THEN \* papers[idx] raises IndexError out of the node
            /\ opened
            /\ node' = "raised"
            /\ lastStep' = [node |-> "parse", outcome |-> "IndexError",
                            run |-> 0]
            /\ UNCHANGED <<state_papers, error_count>>
       ELSE /\ node' = "extract"
            /\ IF is_failed(paper)
               THEN /\ opened
                    /\ lastStep' = [node |-> "parse", outcome |-> "skipped",
                                    run |-> 0]
                    /\ UNCHANGED <<state_papers, error_count>>
               ELSE IF opened
               THEN /\ state_papers' =
                           [state_papers EXCEPT ![idx + 1] =
                               [paper EXCEPT !.processing_status = "parsed"]]
                    /\ lastStep' = [node |-> "parse", outcome |-> "parsed",
                                    run |-> 0]
                    /\ UNCHANGED error_count
               ELSE /\ state_papers' =
                           [state_papers EXCEPT ![idx + 1] =
                               mark_failed(paper)]
                    /\ error_count' = error_count + 1
                    /\ lastStep' = [node |-> "parse", outcome |-> "failed",
                                    run |-> 0]
    /\ UNCHANGED <<current_index, processed_count, should_stop, retry_count,
                   max_retries, max_papers, extract_runs>>
    /\ UNCHANGED <<normVars, evalVars, fullVars, storeVars, rorVars,
                   taskVars>>

\* what the structured LLM call of extract_affiliations comes to
ExtractionOutcomes == {"authors", "no_authors", "exception"}

\* extract_affiliations
extract_affiliations(llm) ==
    LET idx == current_index
        paper == state_papers[idx + 1]
    IN
    /\ may_run("extract")
    /\ idx < Len(state_papers)
    /\ node' = "normalize"
    /\ step_count' = step_count + 1
    /\ IF is_failed(paper)
       THEN /\ llm = "exception"
            /\ current_index' = idx + 1
            /\ retry_count' = 0
            /\ extract_runs' = 0
            /\ lastStep' = [node |-> "extract", outcome |-> "skipped",
                            run |-> extract_runs + 1]
            /\ UNCHANGED <<state_papers, processed_count, error_count>>
       ELSE IF llm # "exception"
       THEN /\ state_papers' =
                   [state_papers EXCEPT ![idx + 1] =
                       [paper EXCEPT
                           !.authors = IF llm = "authors" THEN "llm"
                                       ELSE "none",
                           !.processing_status = "extracted"]]
            /\ current_index' = idx + 1
            /\ processed_count' = processed_count + 1
            /\ retry_count' = 0
            /\ extract_runs' = 0
            /\ lastStep' = [node |-> "extract", outcome |-> "extracted",
                            run |-> extract_runs + 1]
            /\ UNCHANGED error_count
       ELSE IF retry_count < max_retries
       THEN /\ state_papers' =
                   [state_papers EXCEPT ![idx + 1] =
                       [paper EXCEPT !.processing_status = "extracting"]]
            /\ retry_count' = retry_count + 1
            /\ extract_runs' = extract_runs + 1
            /\ lastStep' = [node |-> "extract", outcome |-> "retry",
                            run |-> extract_runs + 1]
            /\ UNCHANGED <<current_index, processed_count, error_count>>
       ELSE /\ state_papers' =
                   [state_papers EXCEPT ![idx + 1] = mark_failed(paper)]
            /\ current_index' = idx + 1
            /\ error_count' = error_count + 1
            /\ retry_count' = 0
            /\ extract_runs' = 0
            /\ lastStep' = [node |-> "extract", outcome |-> "failed",
                            run |-> extract_runs + 1]
            /\ UNCHANGED processed_count
    /\ UNCHANGED <<should_stop, max_retries, max_papers>>
    /\ UNCHANGED <<normVars, evalVars, fullVars, storeVars, rorVars,
                   taskVars>>

\* normalize_affiliations, then the conditional edge
normalize_affiliations ==
    LET idx == current_index - 1
        paper == state_papers[idx + 1]
    IN
    /\ may_run("normalize")
    /\ IF idx < 0 \/ idx >= Len(state_papers)
       THEN /\ UNCHANGED state_papers
            /\ lastStep' = [node |-> "normalize", outcome |-> "nothing",
                            run |-> 0]
       ELSE IF is_failed(paper) \/ paper.authors = "none"
       THEN /\ UNCHANGED state_papers
            /\ lastStep' = [node |-> "normalize", outcome |-> "skipped",
                            run |-> 0]
       ELSE /\ state_papers' =
                   [state_papers EXCEPT ![idx + 1] =
                       [paper EXCEPT !.processing_status = "completed"]]
            /\ lastStep' = [node |-> "normalize", outcome |-> "completed",
                            run |-> 0]
    /\ node' = should_continue_processing
    /\ step_count' = step_count + 1
    /\ UNCHANGED <<current_index, processed_count, error_count, should_stop,
                   retry_count, max_retries, max_papers, extract_runs>>
    /\ UNCHANGED <<normVars, evalVars, fullVars, storeVars, rorVars,
                   taskVars>>

\* aggregate_results, then END
aggregate_results ==
    /\ may_run("aggregate")
    /\ node' = "END"
    /\ step_count' = step_count + 1
    /\ lastStep' = [node |-> "aggregate", outcome |-> "report", run |-> 0]
    /\ UNCHANGED <<state_papers, current_index, processed_count, error_count,
                   should_stop, retry_count, max_retries, max_papers,
                   extract_runs>>
    /\ UNCHANGED <<normVars, evalVars, fullVars, storeVars, rorVars,
                   taskVars>>

\* the graph stops a run whose step budget is spent before END
graph_recursion_error ==
    /\ node \notin {"idle", "END", "raised"}
    /\ step_count >= recursion_limit
    /\ node' = "raised"
    /\ lastStep' = [node |-> node, outcome |-> "GraphRecursionError",
                    run |-> 0]
    /\ UNCHANGED <<state_papers, current_index, processed_count, error_count,
                   should_stop, retry_count, max_retries, max_papers,
                   step_count, extract_runs>>
    /\ UNCHANGED <<normVars, evalVars, fullVars, storeVars, rorVars,
                   taskVars>>

\* create_initial_state, entry point search
InitGraph ==
    /\ state_papers = <<>>
    /\ current_index = 0
    /\ processed_count = 0
    /\ error_count = 0
    /\ should_stop = FALSE
    /\ retry_count = 0
    /\ max_retries \in RetryLimits
    /\ max_papers \in 1..MaxRunPapers
    /\ node = "search"
    /\ step_count = 0
    /\ extract_runs = 0
    /\ lastStep = None
    /\ NormIdle
    /\ EvalIdle
    /\ FullIdle
    /\ StoreIdle
    /\ RorIdle
    /\ TaskIdle

NextGraph ==
    \/ \E found \in SearchResults : search_papers(found)
    \/ \E fetched \in BOOLEAN : download_paper(fetched)
    \/ \E opened \in BOOLEAN : parse_pdf(opened)
    \/ \E llm \in ExtractionOutcomes : extract_affiliations(llm)
    \/ normalize_affiliations
    \/ aggregate_results
    \/ graph_recursion_error

SpecGraph == InitGraph /\ [][NextGraph]_vars

\* the graph runs its next node as long as there is one
SpecGraphRuns == SpecGraph /\ WF_vars(NextGraph)

-----------------------------------------------------------------------------
(* Properties of the resolver, checked under SpecNorm                      *)

Called == lastInput # NoCall
\* the last call ran the cascade (a cache hit invokes no tier)
RanCascade == Called /\ lastTrace # <<>>
\* the last call was the first one on the resolver
FreshCall == RanCascade /\ Cardinality(DOMAIN cache) = 1

HasStep(tier) == \E i \in 1..Len(lastTrace) : lastTrace[i].tier = tier
StepOf(tier) ==
    lastTrace[CHOOSE i \in 1..Len(lastTrace) : lastTrace[i].tier = tier]

\* the names the table lists for a record: its canonical name and variants
ListedNames(r) == {r.canonical} \cup {r.variants[i] : i \in 1..Len(r.variants)}
Records == {ORGANIZATION_KB[i] : i \in 1..Len(ORGANIZATION_KB)}
KnownVariants == {VARIANT_LOOKUP[i].variant : i \in 1..Len(VARIANT_LOOKUP)}

\* s is, up to case and surrounding whitespace, a spelling of the index
ExactlyKnown(s) == strip(lower(s)) \in KnownVariants
\* s contains a spelling of the index, or is contained in one
SubstringKnown(s) ==
    \E v \in KnownVariants :
        contains(strip(lower(s)), v) \/ contains(v, strip(lower(s)))
\* the best token_sort_ratio of s against the spellings of the index
BestScore(s) == extractOne_table[s].score

\* C1: a text equal, up to case and surrounding whitespace, to the canonical
\* name or a listed variant of a record R is resolved by a fresh resolver
\* with source kb, confidence 0.95 and R's canonical name.
C1_ListedNameResolvesToItsRecord ==
    \A r \in Records : \A name \in ListedNames(r) :
        (FreshCall /\ strip(lower(lastInput)) = strip(lower(name)))
        => /\ lastResult.source = "kb"
           /\ lastResult.confidence = KbConfidence
           /\ lastResult.normalized = r.canonical

C3_UnresolvedKeepsInput ==
    (Called /\ lastResult.source = "none")
    => /\ lastResult.confidence = NoneConfidence
       /\ lastResult.normalized = lastInput

\* C4: the empty or whitespace-only text gives source none and no tier, the
\* lookup included, is consulted for it.
C4_BlankInputSkipsCascade ==
    (Called /\ strip(lastInput) = EmptyStr)
    => /\ lastResult.source = "none"
       /\ lastTrace = <<>>

\* C5: an entry of the cache is never changed or removed, and a call whose
\* key is in the cache returns the cached result and runs no tier.
C5_CachedResultIsReturned ==
    [][ /\ \A k \in DOMAIN cache :
              k \in DOMAIN cache' /\ cache'[k] = cache[k]
        /\ cache_key_of(lastInput') \in DOMAIN cache
              => /\ lastResult' = cache[cache_key_of(lastInput')]
                 /\ lastTrace' = <<>>
                 /\ lastLlm' = NotCalled ]_vars

\* a hit on an entry written by a call with another spelling of the key,
\* other texts having been normalized on the resolver
C5_Witness ==
    /\ Called
    /\ lastTrace = <<>>
    /\ lastResult.original # lastInput
    /\ lastResult = cache[cache_key_of(lastInput)]
    /\ Cardinality(DOMAIN cache) >= 3

\* C6: the cascade stops at the first success: the fuzzy matcher runs only
\* after the lookup missed, the generative fallback only after both missed
\* and only if enabled, and the unresolved default is returned only when
\* every enabled tier missed or failed.
C6_ShortCircuit ==
    RanCascade =>
        /\ \A i \in 1..(Len(lastTrace) - 1) : ~lastTrace[i].hit
        /\ lastTrace[1].tier = "kb"
        /\ HasStep("fuzzy")
              => /\ lastTrace[1] = Step("kb", FALSE)
                 /\ lastTrace[2].tier = "fuzzy"
                 /\ ~ExactlyKnown(lastInput) /\ ~SubstringKnown(lastInput)
        /\ HasStep("llm")
              => /\ SubSeq(lastTrace, 1, 2)
                      = << Step("kb", FALSE), Step("fuzzy", FALSE) >>
                 /\ lastTrace[3].tier = "llm"
                 /\ use_llm_fallback
                 /\ ~RatGeq(BestScore(lastInput), fuzzy_threshold)
        /\ lastResult.source = "none"
              => /\ \A i \in 1..Len(lastTrace) : ~lastTrace[i].hit
                 /\ HasStep("kb") /\ HasStep("fuzzy")
                 /\ use_llm_fallback => HasStep("llm")
        /\ lastTrace[Len(lastTrace)].hit
              => lastResult.source = lastTrace[Len(lastTrace)].tier

\* the fuzzy tier has succeeded on a resolver whose generative fallback is
\* enabled, and the fallback was not invoked
C6_Witness ==
    /\ use_llm_fallback
    /\ lastTrace = << Step("kb", FALSE), Step("fuzzy", TRUE) >>
    /\ lastLlm = NotCalled
    /\ lastResult.source = "fuzzy"

LlmFailed ==
    \/ lastLlm.kind = "raise"
    \/ lastLlm.kind = "answer" /\ lastLlm.canonical = NullText

\* C8: when the generative call fails the call returns the unresolved
\* default (source none, confidence 0.30, the input as normalized name);
\* when it succeeds the result has confidence 0.70 and the generative source
\* tag, and an unrecognised organisation type becomes unknown.
C8_GenerativeFallback ==
    /\ LlmFailed
          => /\ lastResult.source = "none"
             /\ lastResult.confidence = NoneConfidence
             /\ lastResult.normalized = lastInput
    /\ (lastLlm.kind = "answer" /\ ~LlmFailed)
          => /\ lastResult.source = "llm"
             /\ lastResult.confidence = LlmConfidence
             /\ lastResult.org_type \in OrganizationTypes
             /\ lastResult.org_type =
                   IF lastLlm.type \in OrganizationTypes
                   THEN lastLlm.type ELSE "unknown"

\* the model call has answered with a type that is no organisation type
C8_Witness ==
    /\ lastLlm.kind = "answer"
    /\ lastLlm.type = "startup"
    /\ lastResult.source = "llm"
    /\ lastResult.org_type = "unknown"

Results == {cache[k] : k \in DOMAIN cache}
             \cup (IF Called THEN {lastResult} ELSE {})

Ceiling(source) ==
    CASE source = "kb" -> [num |-> 95, den |-> 100]
      [] source = "fuzzy" -> [num |-> 90, den |-> 100]
      [] source = "llm" -> [num |-> 70, den |-> 100]
      [] source = "none" -> [num |-> 30, den |-> 100]

\* C9: every result returned or cached has a confidence in [0,1] and at
\* most the ceiling of its source: kb 0.95, fuzzy 0.90, generative 0.70,
\* none 0.30.
C9_ConfidenceCeiling ==
    \A r \in Results :
        /\ r.source \in {"kb", "fuzzy", "llm", "none"}
        /\ r.confidence.den > 0 /\ r.confidence.num >= 0
        /\ RatLeq(r.confidence, [num |-> 1, den |-> 1])
        /\ RatLeq(r.confidence, Ceiling(r.source))

\* results of the kb, fuzzy and generative sources are in the cache, the
\* fuzzy one above 0.85
C9_Witness ==
    /\ \A s \in {"kb", "fuzzy", "llm"} : \E r \in Results : r.source = s
    /\ \E r \in Results :
          r.source = "fuzzy" /\ RatLess([num |-> 85, den |-> 100], r.confidence)

-----------------------------------------------------------------------------
(* Properties of evaluate_extraction, checked under SpecEval               *)

Evaluated == evalOut # None
Scored == {evalOut.counters.scored_pairs[i] :
              i \in 1..Len(evalOut.counters.scored_pairs)}

\* C10: affiliation and normalization scoring is done for the matched author
\* pairs only: the scored (predicted author, gold author) pairs are exactly
\* the one-to-one matching of the author-matching step, so their number is
\* the author true-positive count (matched_authors), no gold author is scored
\* against two predicted authors, and a predicted author that was not matched
\* (an author false positive) is never scored.
C10_ScoredPairsAreTheMatching ==
    Evaluated =>
        LET c == evalOut.counters IN
        /\ c.total_matched = evalOut.metrics.matched_authors
        /\ Len(c.scored_pairs) = Cardinality(c.matched_pairs)
        /\ {<<s.paper, s.pred_name, s.gold_name>> : s \in Scored}
               = c.matched_pairs
        /\ \A s, t \in Scored :
               (s.paper = t.paper /\ s.gold_name = t.gold_name) => s = t
        /\ \A s \in Scored :
               \E p \in c.matched_pairs : p[1] = s.paper /\ p[2] = s.pred_name
\* C11: the reported hierarchical_accuracy is <= org_normalization_accuracy
\* and <= country_accuracy: every author pair counted as hierarchically
\* correct is also counted as organisation-correct and as country-correct,
\* also when the predicted country name is absent and the code is present.
C11_HierarchicalIsStrictest ==
    Evaluated =>
        /\ RatLeq(evalOut.metrics.hierarchical_accuracy,
                  evalOut.metrics.org_normalization_accuracy)
        /\ RatLeq(evalOut.metrics.hierarchical_accuracy,
                  evalOut.metrics.country_accuracy)
        /\ \A s \in Scored : s.hierarchical => (s.org /\ s.country)
\* the predicted papers that have a gold paper, their name sets, their matches
EvaluatedPapers ==
    {k \in 1..Len(predictions) : predictions[k].arxiv_id \in DOMAIN gold}
PredNames(k) == names_of(predictions[k].authors)
GoldNames(k) == names_of(gold[predictions[k].arxiv_id].authors)
PairsOf(k) ==
    {<<p[2], p[3]>> : p \in {q \in evalOut.counters.matched_pairs : q[1] = k}}

\* similarity >= the threshold, read from the score of the two names
Similar(a, b) ==
    /\ a # EmptyStr
    /\ b # EmptyStr
    /\ RatGeq(token_sort_ratio_table[a][b], EvalFuzzyThreshold)

RECURSIVE CountPredNames(_)
CountPredNames(K) ==
    IF K = {} THEN 0
    ELSE LET k == CHOOSE x \in K : TRUE
         IN  Cardinality(PredNames(k)) + CountPredNames(K \ {k})

RECURSIVE CountGoldNames(_)
CountGoldNames(K) ==
    IF K = {} THEN 0
    ELSE LET k == CHOOSE x \in K : TRUE
         IN  Cardinality(GoldNames(k)) + CountGoldNames(K \ {k})

PositionIn(scan, x) == CHOOSE i \in 1..Len(scan) : scan[i] = x

\* pairs is what scanning the predicted names in the order ps gives when
\* each takes the first gold name of gs that is similar and still unmatched
GreedyUnder(pairs, ps, gs) ==
    \A i \in 1..Len(ps) :
        LET taken == {p[2] : p \in {q \in pairs : PositionIn(ps, q[1]) < i}}
            cands == {j \in 1..Len(gs) :
                         Similar(ps[i], gs[j]) /\ gs[j] \notin taken}
            mine == {q \in pairs : q[1] = ps[i]}
        IN  IF cands = {} THEN mine = {}
            ELSE mine = {<<ps[i], gs[CHOOSE j \in cands :
                                        \A h \in cands : j <= h]>>}

\* two gold authors, two predicted authors, one of them similar to a gold
\* author and the other to none
ScenarioC ==
    /\ Len(predictions) = 1
    /\ EvaluatedPapers = {1}
    /\ Cardinality(PredNames(1)) = 2
    /\ Len(predictions[1].authors) = 2
    /\ Cardinality(GoldNames(1)) = 2
    /\ Cardinality({p \in PredNames(1) :
                       \E g \in GoldNames(1) : Similar(p, g)}) = 1

Half == [num |-> 1, den |-> 2]

\* C12: within each evaluated paper the author matching is one-to-one; a
\* predicted name is matched to the first still-unmatched gold name whose
\* similarity is >= the threshold; unmatched predicted names are the author
\* false positives and unmatched gold names the false negatives, so TP+FP is
\* the number of distinct predicted names and TP+FN the number of distinct
\* gold names; with 2 gold authors, 1 matching and 1 non-matching predicted
\* author: author precision = recall = F1 = 0.5, hallucination rate = 0.5.
C12_AuthorMatchingIsOneToOne ==
    Evaluated =>
        LET c == evalOut.counters
            m == evalOut.metrics
        IN
        /\ \A k \in EvaluatedPapers :
              /\ PairsOf(k) \subseteq PredNames(k) \X GoldNames(k)
              /\ \A p, q \in PairsOf(k) :
                    (p[1] = q[1] \/ p[2] = q[2]) => p = q
              /\ \A p \in PairsOf(k) : Similar(p[1], p[2])
              /\ \E ps \in scans(PredNames(k)), gs \in scans(GoldNames(k)) :
                    GreedyUnder(PairsOf(k), ps, gs)
        /\ c.author_tp = Cardinality(c.matched_pairs)
        /\ c.author_tp + c.author_fp = CountPredNames(EvaluatedPapers)
        /\ c.author_tp + c.author_fn = CountGoldNames(EvaluatedPapers)
        /\ ScenarioC =>
              /\ RatEq(m.author_precision, Half)
              /\ RatEq(m.author_recall, Half)
              /\ RatEq(m.author_f1, Half)
              /\ RatEq(m.author_hallucination_rate, Half)

\* scenario C has been evaluated
C12_Witness == Evaluated /\ ScenarioC
\* the two authors of a scored pair
PredOf(s) == predictions[s.paper].authors[s.pred_index]
GoldOf(s) ==
    LET authors == gold[predictions[s.paper].arxiv_id].authors
    IN  authors[CHOOSE i \in 1..Len(authors) : authors[i].name = s.gold_name]

NonEmpty(text) == text # EmptyStr /\ text # NullText
CountAff(outcome) ==
    Cardinality({i \in 1..Len(evalOut.counters.scored_pairs) :
                    evalOut.counters.scored_pairs[i].aff = outcome})

\* C13: for each scored author pair: both raw affiliations non-empty -> one
\* true positive if they are fuzzy-equal, otherwise one false positive;
\* predicted non-empty and gold empty -> one false positive; predicted empty
\* and gold non-empty -> one false negative; both empty -> no count changes.
\* Exactly one of the four cases applies to each pair.
C13_AffiliationOutcome ==
    Evaluated =>
        /\ \A s \in Scored :
              LET p == NonEmpty(PredOf(s).raw_affiliation)
                  g == NonEmpty(GoldOf(s).raw_affiliation)
                  equal == Similar(PredOf(s).raw_affiliation,
                                   GoldOf(s).raw_affiliation)
              IN  /\ (p /\ g /\ equal) => s.aff = "tp"
                  /\ (p /\ g /\ ~equal) => s.aff = "fp"
                  /\ (p /\ ~g) => s.aff = "fp"
                  /\ (~p /\ g) => s.aff = "fn"
                  /\ (~p /\ ~g) => s.aff = "none"
                  /\ s.aff \in {"tp", "fp", "fn", "none"}
        /\ evalOut.counters.aff_tp = CountAff("tp")
        /\ evalOut.counters.aff_fp = CountAff("fp")
        /\ evalOut.counters.aff_fn = CountAff("fn")
        /\ CountAff("tp") + CountAff("fp") + CountAff("fn") + CountAff("none")
               = evalOut.counters.total_matched

\* one evaluation scored a pair of each kind: both non-empty and equal, both
\* non-empty and different, predicted only, gold only -- or both empty
C13_Witness ==
    /\ Evaluated
    /\ \E s \in Scored : s.aff = "tp"
    /\ \E s \in Scored : s.aff = "fn"
    /\ \E s \in Scored : s.aff = "none"
    /\ \E s \in Scored :
          /\ s.aff = "fp"
          /\ NonEmpty(PredOf(s).raw_affiliation)
          /\ ~NonEmpty(GoldOf(s).raw_affiliation)
\* rate is a / b, and 0 when b is 0
IsRate(rate, a, b) ==
    /\ rate.den > 0
    /\ IF b > 0 THEN rate.num * b = a * rate.den ELSE rate.num = 0

\* f1 is 2pr / (p + r) for p = tp / (tp + fp) and r = tp / (tp + fn), and 0
\* when p + r is 0
IsF1(f1, tp, fp, fn) ==
    LET pn == IF tp + fp > 0 THEN tp ELSE 0
        pd == IF tp + fp > 0 THEN tp + fp ELSE 1
        rn == IF tp + fn > 0 THEN tp ELSE 0
        rd == IF tp + fn > 0 THEN tp + fn ELSE 1
    IN  /\ f1.den > 0
        /\ IF pn * rd + rn * pd > 0
           THEN f1.num * (pn * rd + rn * pd) = 2 * pn * rn * f1.den
           ELSE f1.num = 0

InUnitInterval(rate) ==
    rate.den > 0 /\ 0 <= rate.num /\ rate.num <= rate.den

RateFields ==
    {"author_precision", "author_recall", "author_f1",
     "affiliation_precision", "affiliation_recall", "affiliation_f1",
     "org_normalization_accuracy", "country_accuracy", "org_type_accuracy",
     "hierarchical_accuracy", "author_hallucination_rate",
     "affiliation_hallucination_rate"}

\* C14: the reported rates follow the standard formulas on the aggregated
\* counts, for authors and for affiliations: precision = TP/(TP+FP),
\* recall = TP/(TP+FN), F1 = 2PR/(P+R), each 0 when its denominator is 0;
\* every rate lies in [0,1]; an empty predictions list gives precision =
\* recall = F1 = 0 for authors and for affiliations.
C14_StandardFormulas ==
    Evaluated =>
        LET c == evalOut.counters
            m == evalOut.metrics
        IN
        /\ IsRate(m.author_precision, c.author_tp, c.author_tp + c.author_fp)
        /\ IsRate(m.author_recall, c.author_tp, c.author_tp + c.author_fn)
        /\ IsF1(m.author_f1, c.author_tp, c.author_fp, c.author_fn)
        /\ IsRate(m.affiliation_precision, c.aff_tp, c.aff_tp + c.aff_fp)
        /\ IsRate(m.affiliation_recall, c.aff_tp, c.aff_tp + c.aff_fn)
        /\ IsF1(m.affiliation_f1, c.aff_tp, c.aff_fp, c.aff_fn)
        /\ \A f \in RateFields : InUnitInterval(m[f])
        /\ predictions = <<>> =>
              \A f \in {"author_precision", "author_recall", "author_f1",
                        "affiliation_precision", "affiliation_recall",
                        "affiliation_f1"} : m[f].num = 0

\* an evaluation in which author precision and recall are positive and
\* differ, and affiliation true and false positives were both counted
C14_Witness ==
    /\ Evaluated
    /\ evalOut.counters.author_tp > 0
    /\ evalOut.counters.author_fp > 0
    /\ RatLess(evalOut.metrics.author_precision, evalOut.metrics.author_recall)
    /\ evalOut.counters.aff_tp > 0
    /\ evalOut.counters.aff_fp > 0
\* every predicted paper has a gold paper and lists exactly the gold authors
\* of that paper, every field equal; there is at least one paper and every
\* paper has at least one author
PerfectPredictions ==
    /\ predictions # <<>>
    /\ \A k \in 1..Len(predictions) :
          /\ predictions[k].arxiv_id \in DOMAIN gold
          /\ predictions[k].authors # <<>>
          /\ predictions[k].authors = gold[predictions[k].arxiv_id].authors

One == [num |-> 1, den |-> 1]

\* C15: if every predicted paper has a gold paper and its predicted authors
\* are exactly the gold authors, every field identical to gold, then
\* author F1 = affiliation F1 = hierarchical_accuracy = 1.0 and the author
\* and affiliation hallucination rates are 0.0, for any number of authors
\* per paper and any scan order of the names.
C15_PerfectPredictionsScoreOne ==
    (Evaluated /\ PerfectPredictions) =>
        /\ RatEq(evalOut.metrics.author_f1, One)
        /\ RatEq(evalOut.metrics.affiliation_f1, One)
        /\ RatEq(evalOut.metrics.hierarchical_accuracy, One)
        /\ evalOut.metrics.author_hallucination_rate.num = 0
        /\ evalOut.metrics.affiliation_hallucination_rate.num = 0
\* the predictions without the k-th paper
WithoutPaper(k) ==
    [i \in 1..(Len(predictions) - 1) |->
        IF i < k THEN predictions[i] ELSE predictions[i + 1]]

\* C16: predicted papers whose identifier has no gold paper are skipped:
\* adding such a paper, with any authors, to the predictions changes none of
\* the reported rates (author and affiliation precision/recall/F1, the
\* accuracies, the hallucination rates).
C16_PaperWithoutGoldChangesNoRate ==
    Evaluated =>
        \A k \in 1..Len(predictions) :
            predictions[k].arxiv_id \notin DOMAIN gold =>
                \E c \in evaluate_papers(WithoutPaper(k), 1, {ZeroCounters}) :
                    \A f \in RateFields :
                        RatEq(metrics_of(c, WithoutPaper(k))[f],
                              evalOut.metrics[f])

-----------------------------------------------------------------------------
(* Properties of evaluate_full, checked under SpecFull                     *)

Reported == report # None

\* the numeric fields that are counts; the other numeric fields are floats
CountFields ==
    {"total_gold_authors", "total_pred_authors", "matched_authors",
     "papers_fully_processed", "papers_partial", "papers_failed",
     "total_input_tokens", "total_output_tokens", "total_api_calls",
     "cached_pdfs", "downloaded_pdfs"}
AllZero(metrics, fields) ==
    \A f \in fields :
        IF f \in CountFields THEN metrics[f] = 0 ELSE metrics[f].num = 0
ExtractionNumbers == DOMAIN ExtractionMetrics
AgentNumbers == DOMAIN AgentMetrics \ {"errors_by_stage"}
EngineeringNumbers ==
    DOMAIN EngineeringMetrics \ {"time_by_stage", "api_calls_by_source"}

\* C17: in the report of evaluate_full every numeric field whose inputs are
\* absent is 0.0: the extraction numbers with an empty gold store, the agent
\* numbers without run logs, the engineering numbers without a start or end
\* time, and with all three absent overall_quality_score as well.
C17_AbsentInputsGiveZero ==
    Reported =>
        /\ DOMAIN gold = {} =>
               AllZero(report.extraction, ExtractionNumbers)
        /\ args.run_logs = None => AllZero(report.agent, AgentNumbers)
        /\ (args.start_time = None \/ args.end_time = None) =>
               AllZero(report.engineering, EngineeringNumbers)
        /\ (/\ DOMAIN gold = {}
            /\ args.run_logs = None
            /\ args.start_time = None
            /\ args.end_time = None) =>
               report.overall_quality_score.num = 0

-----------------------------------------------------------------------------
(* Properties of the gold store, checked under SpecStore                   *)

KeysOf(papers) == {papers[i].k : i \in 1..Len(papers)}
PaperAt(papers, id) ==
    (CHOOSE i \in 1..Len(papers) : papers[i].k = id)
PaperOf(papers, id) == papers[PaperAt(papers, id)].v

\* a store has just been built from the file the last save() wrote
BuiltFromSavedFile == lastCall.op = "__init__" /\ saved # None

\* C18: a fresh store built from a saved file has the same paper ids, the
\* same number of papers and of authors, and for every paper the same title,
\* source, annotator, date, notes and the same authors in the same order
\* with every field equal to the saved store's.
C18_SaveLoadRoundTrip ==
    BuiltFromSavedFile =>
        /\ lastCall.raised = "none"
        /\ dataset # None
        /\ KeysOf(dataset.papers) = KeysOf(saved.papers)
        /\ Len(dataset.papers) = Len(saved.papers)
        /\ count_authors(dataset.papers, 1) = count_authors(saved.papers, 1)
        /\ \A id \in KeysOf(saved.papers) :
              LET p == PaperOf(saved.papers, id)
                  q == PaperOf(dataset.papers, id)
              IN  /\ q.paper_id = p.paper_id
                  /\ q.title = p.title
                  /\ q.source = p.source
                  /\ q.annotator = p.annotator
                  /\ q.annotation_date = p.annotation_date
                  /\ q.notes = p.notes
                  /\ Len(q.authors) = Len(p.authors)
                  /\ \A j \in 1..Len(p.authors) :
                        \A f \in GoldAuthorFields :
                            q.authors[j][f] = p.authors[j][f]

\* a fresh store built from a saved file with two papers, one of them with
\* two authors and a source other than the default
C18_Witness ==
    /\ BuiltFromSavedFile
    /\ dataset # None
    /\ Len(saved.papers) = 2
    /\ \E i \in 1..2 :
          /\ Len(saved.papers[i].v.authors) = 2
          /\ saved.papers[i].v.source # DefaultSource
          /\ saved.papers[i].v.authors[1].name = GoldAuthorPool[2].name

\* the entries of the file, and those load() can turn into a GoldPaper
FileEntries == get_or(file.value, "papers", <<>>)
WellFormed(entry) ==
    /\ "paper_id" \in DOMAIN entry
    /\ \A j \in 1..Len(get_or(entry, "authors", <<>>)) :
          DOMAIN entry.authors[j] = GoldAuthorFields

\* C19: loading a file raises nothing, whatever malformed paper or author
\* entries it holds, and every well-formed paper of the file, before and
\* after a malformed one, is in the store afterwards.
C19_MalformedEntriesAreSkipped ==
    (lastCall.op \in {"__init__", "load"} /\ file # None) =>
        /\ lastCall.raised = "none"
        /\ dataset # None
        /\ \A i \in 1..Len(FileEntries) :
              WellFormed(FileEntries[i]) =>
                  FileEntries[i].paper_id \in KeysOf(dataset.papers)

-----------------------------------------------------------------------------
(* Properties of the registry lookup, checked under SpecRor                *)

\* the last lookup missed the cache
Miss == lastLookup # None /\ ~lastLookup.hit

\* the query after abbreviation expansion
Expanded ==
    [org_name \in RorQueries |->
        LET key == strip(lower(org_name))
        IN  IF key \in DOMAIN ABBREVIATION_MAP THEN ABBREVIATION_MAP[key]
            ELSE org_name]
ExpandedQuery == Expanded[lastLookup.org_name]

\* the score of a candidate: the best fuzzy score of its own non-empty
\* names against the query, 0 without any
NameValues(item) ==
    {item.names[j].value :
        j \in {k \in 1..Len(item.names) :
                  /\ "value" \in DOMAIN item.names[k]
                  /\ item.names[k].value # EmptyStr}}
RatMaxOf(S) == CHOOSE s \in S : \A t \in S : RatLeq(t, s)
ItemScore ==
    [q \in RorSearchNames |-> [item \in RorItems |->
        RatMaxOf({Zero} \cup {ror_score_table[q][n] :
                                 n \in NameValues(item)})]]
\* the scores of the first n candidates of the response, in order
CandidateScores(n) ==
    LET q == ExpandedQuery
    IN  [i \in 1..n |-> ItemScore[q][registry[i]]]
\* the best of a list of scores and the position where it is first reached
TopScore(scores) ==
    RatMaxOf({Zero} \cup {scores[i] : i \in 1..Len(scores)})
FirstTop(scores) ==
    LET best == TopScore(scores)
    IN  CHOOSE i \in 1..Len(scores) :
            /\ RatEq(scores[i], best)
            /\ \A j \in 1..(i - 1) : RatLess(scores[j], best)
Considered == IF Len(registry) < 5 THEN Len(registry) ELSE 5

\* the outcome of a miss when only the first five candidates count
BestOfFirstFive ==
    LET scores == CandidateScores(Considered)
        best == TopScore(scores)
    IN  IF \/ ~lastLookup.net.ok
           \/ registry = <<>>
           \/ RatLess(best, [num |-> 60, den |-> 1])
        THEN lastLookup.result = None
        ELSE /\ lastLookup.result # None
             /\ lastLookup.result.ror_id = registry[FirstTop(scores)].id
             /\ RatEq(lastLookup.result.confidence,
                      [num |-> best.num, den |-> 100 * best.den])

\* the best candidate of the whole response is at position 6 or later
BestIsBeyondFive ==
    LET scores == CandidateScores(Len(registry))
    IN  /\ Len(registry) > 5
        /\ TopScore(scores).num > 0
        /\ FirstTop(scores) > 5

\* C20: on a cache miss the lookup scores the first 5 candidates of the
\* response by their best name score against the expanded query and returns
\* the highest, the earliest among equals, with confidence best_score/100
\* when best_score >= 60; it returns no match when best_score < 60, when the
\* response is empty, or when the best candidate of the response is at
\* position 6 or later.
C20_RegistryLookup ==
    Miss =>
        /\ BestOfFirstFive
        /\ (lastLookup.net.ok /\ BestIsBeyondFive) =>
               lastLookup.result = None

\* C20 amended: as C20, but a candidate at position 6 or later is never
\* looked at: the outcome is that of the first 5 candidates alone, a match
\* when one of them scores 60 or more, even if a later candidate scores
\* higher; a failed request gives no match.
C20_Amended == Miss => BestOfFirstFive

\* a miss on a six-item response whose best candidate comes sixth, while one
\* of the first five scores enough to be returned
C20_Witness ==
    /\ Miss
    /\ lastLookup.net.ok
    /\ BestIsBeyondFive
    /\ lastLookup.result # None
-----------------------------------------------------------------------------
(* Properties of the registry client's cache and requests, checked under    *)
(* SpecRorCache and SpecRorClient                                           *)

LookupCall == lastLookup # None /\ lastLookup.op = "lookup"
CacheKeys(d) == {d[i].k : i \in 1..Len(d)}

\* a step that is a lookup ending in a miss: every miss makes a request
MissStep ==
    /\ request_count' # request_count
    /\ lastLookup'.op = "lookup"

\* a miss with the cache at capacity drops exactly one entry that was there
\* and puts the new key in
MissAtCapacityEvictsOne ==
    (MissStep /\ Len(ror_cache) >= cache_size) =>
        /\ Cardinality(CacheKeys(ror_cache) \ CacheKeys(ror_cache')) = 1
        /\ CacheKeys(ror_cache') \ CacheKeys(ror_cache) =
               {strip(lower(lastLookup'.org_name))}
        /\ Len(ror_cache') = Len(ror_cache)

\* C21: for every cache_size >= 0 and after any sequence of lookup and
\* clear_cache calls the cache holds at most cache_size entries, a miss at
\* capacity removes exactly one existing entry before inserting, and no
\* lookup fails because of the capacity check.
C21_CacheWithinCapacity ==
    /\ [](/\ Len(ror_cache) <= cache_size
          /\ LookupCall => lastLookup.raised # "StopIteration")
    /\ [][MissAtCapacityEvictsOne]_vars

\* the same for clients configured with cache_size >= 1
C21_HoldsForPositiveSize ==
    /\ [](cache_size >= 1 =>
            /\ Len(ror_cache) <= cache_size
            /\ LookupCall => lastLookup.raised # "StopIteration")
    /\ [][cache_size >= 1 => MissAtCapacityEvictsOne]_vars

HitStep == lastLookup'.op = "lookup" /\ lastLookup'.hit

\* a miss with a full, non-empty cache drops the first entry of the cache
\* and appends the new key; a hit leaves the order as it is
EvictsFirstInserted ==
    /\ (MissStep /\ Len(ror_cache) >= cache_size /\ ror_cache # <<>>) =>
           /\ lastLookup'.evicted = ror_cache[1].k
           /\ ror_cache' =
                  Append(Tail(ror_cache),
                         [k |-> strip(lower(lastLookup'.org_name)),
                          v |-> lastLookup'.result])
    /\ HitStep => ror_cache' = ror_cache

RequestCall ==
    /\ lastLookup # None
    /\ lastLookup.op \in {"lookup", "get_by_id"}
    /\ ~lastLookup.hit

\* at most three attempts; a call whose attempts all failed returned no
\* match and raised nothing
FailedCallReturnsNone ==
    RequestCall =>
        /\ lastLookup.net.attempts \in 1..RequestAttempts
        /\ ~lastLookup.net.ok =>
               /\ lastLookup.net.attempts = RequestAttempts
               /\ lastLookup.result = None
               /\ lastLookup.raised = "None"

\* the counter grows by the attempts of the call, and by nothing on a hit
CounterCountsAttempts ==
    /\ request_count' # request_count =>
           /\ lastLookup'.net # None
           /\ request_count' = request_count + lastLookup'.net.attempts
    /\ lastLookup'.net = None => request_count' = request_count

\* C22: a registry call (lookup or get_by_id) makes at most 3 attempts; if
\* all fail, by timeout, connection error, HTTP 404 or another HTTP error
\* status, it returns no match and raises nothing; the request counter
\* grows by exactly the number of attempts made.
C22_FailedRequestsGiveNoMatch ==
    [](FailedCallReturnsNone) /\ [][CounterCountsAttempts]_vars

\* get_by_id whose three attempts all ended in HTTP 500
C22_Witness ==
    /\ RequestCall
    /\ lastLookup.op = "get_by_id"
    /\ ~lastLookup.net.ok
    /\ lastLookup.net.cause.status = 500
    /\ lastLookup.result = None
    /\ request_count > RequestAttempts

SameKey(a, b) == strip(lower(a)) = strip(lower(b))

\* a lookup right after a completed lookup of the same key is a hit with
\* the same value and without a request
SecondLookupIsHit ==
    (/\ LookupCall
     /\ lastLookup.raised = "None"
     /\ lastLookup'.op = "lookup"
     /\ SameKey(lastLookup'.org_name, lastLookup.org_name)) =>
        /\ lastLookup'.hit
        /\ lastLookup'.raised = "None"
        /\ lastLookup'.result = lastLookup.result
        /\ request_count' = request_count

\* C23: lookup(x) immediately after a completed lookup(x), same text up to
\* case and surrounding whitespace, returns the same value and issues no
\* request, whether the first call ended in a match, in no match or in
\* exhausted retries; the request counter is unchanged by the second call.
C23_RepeatedLookupIsCached == [][SecondLookupIsHit]_vars

\* " ABC" answered from the cache with the no match that the exhausted
\* retries of an earlier lookup left there
C23_Witness ==
    /\ LookupCall
    /\ lastLookup.hit
    /\ lastLookup.org_name = <<" ","A","B","C">>
    /\ lastLookup.result = None
    /\ registry # <<>>
    /\ request_count = RequestAttempts
-----------------------------------------------------------------------------
(* Properties of the task manager, checked under SpecTasks                  *)

StartResponse == lastResponse # None /\ lastResponse.op = "start_analysis"

\* C24: at most one task has status RUNNING at any time, for every
\* interleaving of start requests and background run_analysis executions,
\* and a start request made while a task is RUNNING is rejected with a 409
\* that carries the active task's id.
C24_OneRunningTask ==
    /\ Cardinality(running_tasks) <= 1
    /\ (StartResponse /\ lastResponse.running # {}) =>
           /\ lastResponse.status_code = 409
           /\ lastResponse.active_task_id \in lastResponse.running

\* C30: once cancel_task has set a task to CANCELLED, no later step of its
\* run_analysis changes the status to COMPLETED or FAILED.
C30_CancelledIsTerminal ==
    [][\A t \in 1..Len(tasks) :
           tasks[t] = "cancelled" => tasks'[t] = "cancelled"]_vars
-----------------------------------------------------------------------------
(* Properties of the agent graph, checked under SpecGraph and SpecGraphRuns *)

Ran(name) == lastStep # None /\ lastStep.node = name

\* C25: every run of the graph eventually executes aggregate and reaches
\* END, for any number of papers found (zero papers and a failed search
\* included) and any pattern of download, parse and extraction failures;
\* no node raises out of the graph.
C25_RunReachesEnd ==
    /\ [](Ran("parse") => lastStep.outcome # "IndexError")
    /\ <>(node = "END" /\ Ran("aggregate"))

\* the step is one execution of extract
ExtractStep == node = "extract" /\ node' = "normalize"

\* what one execution of extract does to the counters
ExtractEffects ==
    ExtractStep =>
        /\ lastStep'.outcome = "retry" =>
               /\ retry_count < max_retries
               /\ retry_count' = retry_count + 1
               /\ UNCHANGED <<current_index, processed_count, error_count>>
               /\ ~is_failed(state_papers'[current_index + 1])
        /\ lastStep'.outcome = "failed" =>
               /\ retry_count = max_retries
               /\ is_failed(state_papers'[current_index + 1])
               /\ error_count' = error_count + 1
               /\ current_index' = current_index + 1
               /\ retry_count' = 0
               /\ UNCHANGED processed_count
        /\ lastStep'.outcome = "extracted" =>
               /\ processed_count' = processed_count + 1
               /\ current_index' = current_index + 1
               /\ retry_count' = 0
               /\ UNCHANGED error_count

\* after an extraction that asked for a retry, normalize hands over to
\* extract again
RetryGoesBackToExtract ==
    (Ran("extract") /\ lastStep.outcome = "retry" /\ node = "normalize"
         /\ node' # "raised") =>
        node' = "extract"

\* C26: for each paper extract runs at most max_retries + 1 times: a failure
\* with retry_count < max_retries adds 1 to retry_count, leaves
\* current_index, processed_count and error_count alone and routes back to
\* extract; the failure at retry_count = max_retries marks the paper FAILED,
\* adds 1 to error_count, advances current_index and resets retry_count; a
\* success adds 1 to processed_count, advances current_index and resets
\* retry_count.
C26_ExtractionRetries ==
    /\ [](Ran("extract") => lastStep.run <= max_retries + 1)
    /\ [][ExtractEffects /\ RetryGoesBackToExtract]_vars

\* the fourth extraction of a paper failed and the paper is FAILED
C26_Witness ==
    /\ Ran("extract")
    /\ lastStep.outcome = "failed"
    /\ max_retries = DefaultMaxRetries
    /\ lastStep.run = DefaultMaxRetries + 1
    /\ is_failed(state_papers[current_index])

\* C27: with max_retries = 3, a run over at most max_papers papers reaches
\* END within recursion_limit = 6 * max_papers + 20 node executions, for
\* every pattern of extraction failures and retries.
C27_StepBudgetSuffices ==
    max_retries = DefaultMaxRetries =>
        /\ lastStep # None => lastStep.outcome # "GraphRecursionError"
        /\ (node \notin {"END", "raised"}) => step_count < recursion_limit

\* a paper the download node found no PDF for and that came with an API
\* affiliation
ApiPaperWithoutPdf(p) ==
    /\ p.found_authors = "api"
    /\ ~p.pdf_path
    /\ p.processing_status # "pending"

\* the paper the nodes are working on is such a paper
OnApiPaperWithoutPdf ==
    /\ node \in {"parse", "extract"}
    /\ current_index < Len(state_papers)
    /\ ApiPaperWithoutPdf(state_papers[current_index + 1])

\* C28: a paper without a downloadable PDF that carries an API-provided raw
\* affiliation is not marked FAILED: it keeps its API-provided authors, is
\* normalized and ends COMPLETED, and error_count is not increased for it.
C28_ApiAffiliationsAreKept ==
    /\ [](\A i \in 1..Len(state_papers) :
              ApiPaperWithoutPdf(state_papers[i]) =>
                  /\ ~is_failed(state_papers[i])
                  /\ state_papers[i].authors = "api"
                  /\ node = "END" =>
                         state_papers[i].processing_status = "completed")
    /\ [][OnApiPaperWithoutPdf => error_count' = error_count]_vars

====
